---- MODULE Spec2Model ----
(***************************************************************************)
(* Rolling upgrade of the PD member group (pkg/manager/member/             *)
(* pd_upgrader.go): one Upgrade pass over a snapshot of the cluster        *)
(* status, the observed StatefulSet (oldSet) and the freshly built one     *)
(* (newSet), followed by the caller's declarative update, with the         *)
(* StatefulSet controller, the PD cluster and the user as environment.     *)
(***************************************************************************)
EXTENDS FiniteSets, Integers, Sequences, TLC

\* ------------------------------------------------------------------ bounds
MaxReplicas == 3
MaxDeleteSlot == 1
MaxPeers == 1
MaxDisturbances == 1
\* Replicas of the undisturbed rolling upgrade (SpecRolling).
RollingReplicas == 5
\* Peer members of other clusters in the choice of a transfer target
\* (SpecSelect).
MaxSelectPeers == 2
\* Replicas and delete slots of the scaling of a group (SpecScale).
MaxScaleReplicas == 5
MaxScaleSlot == 3
\* Replicas of the pump group (SpecPump).
MaxPumpReplicas == 2

\* ------------------------------------------------------------- small helpers
Max(S) == CHOOSE x \in S : \A y \in S : y <= x
Min(S) == CHOOSE x \in S : \A y \in S : x <= y

\* ------------------------------------------------- ordinals (delete slots)
\* GetMaxReplicaCount making room for every delete slot, wherever it lies.
GetMaxReplicaCount_EverySlot(replicas, deleteSlots) ==
    replicas + Cardinality(deleteSlots)

\* GetMaxReplicaCount ignoring the delete slots.
GetMaxReplicaCount_NoSlots(replicas, deleteSlots) == replicas

\* helper.GetMaxReplicaCountAndDeleteSlots: walk the delete slots in ascending
\* order; every slot below the running count makes room for one more ordinal.
RECURSIVE GetMaxReplicaCount(_, _)
GetMaxReplicaCount(replicas, deleteSlots) ==
    IF deleteSlots = {} THEN replicas
    ELSE LET s == Min(deleteSlots) IN
         IF s < replicas THEN GetMaxReplicaCount(replicas + 1, deleteSlots \ {s})
         ELSE replicas

\* helper.GetPodOrdinals(replicas, set): the live ordinals of a set.
GetPodOrdinals(set) ==
    { i \in 0 .. (GetMaxReplicaCount(set.replicas, set.deleteSlots) - 1) :
        i \notin set.deleteSlots }

\* helper.GetMaxPodOrdinal / helper.GetMinPodOrdinal (-1 for an empty set).
GetMaxPodOrdinal(set) ==
    IF GetPodOrdinals(set) = {} THEN -1 ELSE Max(GetPodOrdinals(set))

GetMinPodOrdinal(set) ==
    IF GetPodOrdinals(set) = {} THEN -1 ELSE Min(GetPodOrdinals(set))

\* The delete-slot sets of the model: none, or one slot left vacant.
DeleteSlotSets == {{}} \cup { {s} : s \in 1 .. MaxDeleteSlot }

Topologies == [replicas : 1 .. MaxReplicas, deleteSlots : DeleteSlotSets]

\* Every ordinal a pod or member of the model can have.
Ordinals == 0 .. (Max({MaxReplicas, RollingReplicas}) + MaxDeleteSlot)

\* ------------------------------------------------------------------ names
NoName == [kind |-> "none", ord |-> 0]
PdPodNameOf(i) == [kind |-> "pod", ord |-> i]
PdNameOf(domain, i) == IF domain THEN [kind |-> "fqdn", ord |-> i] ELSE PdPodNameOf(i)
PeerName(j) == [kind |-> "peer", ord |-> j]

\* ----------------------------------------------------- templates, revisions
Metas == {"m1", "m2"}
PodSpecs == {"s1", "s2"}
Templates == [meta : Metas, spec : PodSpecs]
NoLabel == [meta |-> "none", spec |-> "none"]
InitialTemplate == [meta |-> "m1", spec |-> "s1"]

\* -------------------------------------------------------------------- state
VARIABLES
    clusterDomain,     \* tc.Spec.ClusterDomain is set
    webhook,           \* deps.CLIConfig.PodWebhookEnabled
    desired,           \* replicas and delete slots the new set is built with
    desiredTemplate,   \* pod template the new set is built with
    updateRevision,    \* tc.Status.PD.StatefulSet.UpdateRevision
    currentRevision,   \* tc.Status.PD.StatefulSet.CurrentRevision
    members,           \* tc.Status.PD.Members, by ordinal of the member name
    leader,            \* tc.Status.PD.Leader.Name
    peerMembers,       \* tc.Status.PD.PeerMembers
    oldSet,            \* the observed StatefulSet
    pods,              \* ordinal -> controller-revision-hash label
    disturbed,         \* number of disturbances from outside so far
    deletedPods,       \* ordinals whose pod has been deleted since the start
    bs,                \* the BackupSchedule, its backups, the clock, its last Sync
    tac,               \* the TidbClusterAutoScaler, its clock, its last request
    pass               \* the last Upgrade pass: what it was given and what it did

vars == <<clusterDomain, webhook, desired, desiredTemplate, updateRevision,
          currentRevision, members, leader, peerMembers, oldSet, pods, disturbed,
          deletedPods, bs, tac, pass>>

\* No BackupSchedule is on record.
NoSchedule == [exists |-> FALSE]
NoAutoScaler == [exists |-> FALSE]

PdPodName(i) == PdPodNameOf(i)
PdName(i) == PdNameOf(clusterDomain, i)

ManagedStrategy(partition) ==
    [type |-> "RollingUpdate", rolling |-> TRUE, partition |-> partition]

\* The partition of a freshly built set: no ordinal is eligible.
NoneEligible(topology) == GetMaxReplicaCount(topology.replicas, topology.deleteSlots)

\* The new set as the template builder hands it to the Upgrader.
NewSetBuilt ==
    [replicas |-> desired.replicas,
     deleteSlots |-> desired.deleteSlots,
     template |-> desiredTemplate,
     strategy |-> ManagedStrategy(NoneEligible(desired))]

\* A set value for the pass record while no pass result is on record.
NoSet ==
    [replicas |-> 0, deleteSlots |-> {}, template |-> NoLabel,
     strategy |-> [type |-> "none", rolling |-> FALSE, partition |-> -1]]

\* The status fields and call results that every pass obtains afresh:
\* tc.Status.PD.Synced, tc.Status.TiCDC.Phase, tc.Status.PD.Phase, whether the
\* last-applied-config annotation of oldSet can be read, and the answer of PD
\* to a leader-transfer request.
PassInputs(phase) ==
    { tc \in [synced : BOOLEAN, ticdcPhase : {"Normal", "Upgrade"}, pdPhase : {phase},
              lastAppliedOK : BOOLEAN, transferOk : BOOLEAN] :
        \* the values a pass does not get to read are left at their defaults
        /\ ~tc.synced => tc.ticdcPhase = "Normal" /\ tc.lastAppliedOK
        /\ (~tc.synced \/ tc.ticdcPhase = "Upgrade" \/ phase = "Scale"
               \/ ~tc.lastAppliedOK) => tc.transferOk }

NoInput ==
    [synced |-> TRUE, ticdcPhase |-> "Normal", pdPhase |-> "Normal",
     lastAppliedOK |-> TRUE, transferOk |-> TRUE]

NoPass ==
    [ran |-> FALSE, tc |-> NoInput, path |-> "none", err |-> "nil", phase |-> "Normal",
     newSet |-> NoSet, oldSet |-> NoSet, target |-> -1, transfers |-> <<>>,
     accepted |-> FALSE, inspected |-> <<>>, applied |-> FALSE]

\* ------------------------------------------------------------- error classes
\* controller.RequeueErrorf results are re-queued silently; the rest are errors.
RequeueErrors == {"NoLabel", "NotReady", "TransferringLeader"}
PlainErrors == {"NotSynced", "GetLastAppliedConfig", "GetPod", "TransferFailed"}

\* ---------------------------------------------------------------- Upgrader
\* tc.PDScaling()
PDScaling(tc) == tc.pdPhase = "Scale"

\* tc.PDStsActualReplicas(): the replicas the StatefulSet status reports.
PDStsActualReplicas == Cardinality(DOMAIN pods)

\* templateEqual(new, old): the new pod spec against the last applied one.
templateEqual(tc, new, old) ==
    tc.lastAppliedOK /\ new.template.spec = old.template.spec

\* setUpgradePartition(set, ordinal)
setUpgradePartition(set, upgradeOrdinal) ==
    [set EXCEPT !.strategy.rolling = TRUE, !.strategy.partition = upgradeOrdinal]

\* FirstHealthyPeer without the health test: the first peer of another name.
RECURSIVE FirstHealthyPeer_AnyPeer(_, _)
FirstHealthyPeer_AnyPeer(peers, upgradePdName) ==
    IF peers = <<>> THEN NoName
    ELSE IF Head(peers).name # upgradePdName
         THEN Head(peers).name
         ELSE FirstHealthyPeer_AnyPeer(Tail(peers), upgradePdName)

\* FirstHealthyPeer without the break: the last healthy peer wins.
RECURSIVE FirstHealthyPeer_NoBreak(_, _)
FirstHealthyPeer_NoBreak(peers, upgradePdName) ==
    IF peers = <<>> THEN NoName
    ELSE LET later == FirstHealthyPeer_NoBreak(Tail(peers), upgradePdName)
         IN  IF later # NoName THEN later
             ELSE IF Head(peers).name # upgradePdName /\ Head(peers).health
             THEN Head(peers).name
             ELSE NoName

\* The first healthy peer member other than the vacating one ("" if none).
RECURSIVE FirstHealthyPeer(_, _)
FirstHealthyPeer(peers, upgradePdName) ==
    IF peers = <<>> THEN NoName
    ELSE IF Head(peers).name # upgradePdName /\ Head(peers).health
         THEN Head(peers).name
         ELSE FirstHealthyPeer(Tail(peers), upgradePdName)

\* TransferTarget without the switch to the lowest ordinal: the highest
\* ordinal is the target even when it is the one to upgrade.
TransferTarget_AlwaysMax(ordinal, newSet) ==
    IF PDStsActualReplicas > 1
    THEN LET targetOrdinal == GetMaxPodOrdinal(newSet)
         IN  IF targetOrdinal \in DOMAIN members /\ members[targetOrdinal] # "absent"
             THEN PdName(targetOrdinal) ELSE PdPodName(targetOrdinal)
    ELSE FirstHealthyPeer(peerMembers, PdName(ordinal))

\* TransferTarget addressing the target by its member name in every case.
TransferTarget_MemberNameOnly(ordinal, newSet) ==
    IF PDStsActualReplicas > 1
    THEN LET maxOrdinal == GetMaxPodOrdinal(newSet)
             targetOrdinal == IF ordinal = maxOrdinal
                              THEN GetMinPodOrdinal(newSet) ELSE maxOrdinal
         IN  PdName(targetOrdinal)
    ELSE FirstHealthyPeer(peerMembers, PdName(ordinal))

\* upgradePDPod, lines 119-136: the member the leadership is handed to.
TransferTarget(ordinal, newSet) ==
    IF PDStsActualReplicas > 1
    THEN LET maxOrdinal == GetMaxPodOrdinal(newSet)
             targetOrdinal == IF ordinal = maxOrdinal
                              THEN GetMinPodOrdinal(newSet) ELSE maxOrdinal
         IN  IF targetOrdinal \in DOMAIN members /\ members[targetOrdinal] # "absent"
             THEN PdName(targetOrdinal) ELSE PdPodName(targetOrdinal)
    ELSE FirstHealthyPeer(peerMembers, PdName(ordinal))

\* IsLeader comparing the leader with the member name only.
IsLeader_ByMemberName(ordinal) == leader = PdName(ordinal)

\* upgradePDPod, line 118: the ordinal holds the leadership under either name.
IsLeader(ordinal) == leader = PdName(ordinal) \/ leader = PdPodName(ordinal)

\* upgradePDPod writing the cursor before it asks for the transfer.
upgradePDPod_CursorBeforeTransfer(tc, ordinal, newSet) ==
    LET targetName == TransferTarget(ordinal, newSet) IN
    IF IsLeader(ordinal) /\ targetName # NoName
    THEN IF tc.transferOk
         THEN [err |-> "TransferringLeader",
               newSet |-> setUpgradePartition(newSet, ordinal),
               transfers |-> <<targetName>>, accepted |-> TRUE]
         ELSE [err |-> "TransferFailed",
               newSet |-> setUpgradePartition(newSet, ordinal),
               transfers |-> <<targetName>>, accepted |-> FALSE]
    ELSE [err |-> "nil", newSet |-> setUpgradePartition(newSet, ordinal),
          transfers |-> <<>>, accepted |-> FALSE]

\* upgradePDPod going on to the cursor once the transfer request was accepted.
upgradePDPod_ProceedAfterTransfer(tc, ordinal, newSet) ==
    LET targetName == TransferTarget(ordinal, newSet) IN
    IF IsLeader(ordinal) /\ targetName # NoName /\ ~tc.transferOk
    THEN [err |-> "TransferFailed", newSet |-> newSet,
          transfers |-> <<targetName>>, accepted |-> FALSE]
    ELSE [err |-> "nil", newSet |-> setUpgradePartition(newSet, ordinal),
          transfers |-> IF IsLeader(ordinal) /\ targetName # NoName
                        THEN <<targetName>> ELSE <<>>,
          accepted |-> IsLeader(ordinal) /\ targetName # NoName]

\* upgradePDPod(tc, ordinal, newSet)
upgradePDPod(tc, ordinal, newSet) ==
    LET targetName == TransferTarget(ordinal, newSet) IN
    IF IsLeader(ordinal) /\ targetName # NoName
    THEN IF tc.transferOk
         THEN [err |-> "TransferringLeader", newSet |-> newSet,
               transfers |-> <<targetName>>, accepted |-> TRUE]
         ELSE [err |-> "TransferFailed", newSet |-> newSet,
               transfers |-> <<targetName>>, accepted |-> FALSE]
    ELSE [err |-> "nil", newSet |-> setUpgradePartition(newSet, ordinal),
          transfers |-> <<>>, accepted |-> FALSE]

\* gracefulUpgrade, line 95: the pod carries the update revision.
RevisionIsTarget(revision) == revision = updateRevision

\* MemberReady testing only that the member is on record.
MemberReady_Exists(i) == i \in DOMAIN members /\ members[i] # "absent"

\* gracefulUpgrade, line 96: the member of the ordinal exists and is healthy.
MemberReady(i) == i \in DOMAIN members /\ members[i] = "healthy"

\* NextOrdinal walking the ordinals lowest first.
NextOrdinal_Lowest(ords) == Min(ords)

\* gracefulUpgrade, line 82: the ordinal the loop visits next, highest first.
NextOrdinal(ords) == Max(ords)

\* Walk going on below the first pod to upgrade, down to the last one.
RECURSIVE Walk_ToLowest(_, _)
Walk_ToLowest(ords, seen) ==
    IF ords = {} THEN [kind |-> "done", ordinal |-> -1, inspected |-> seen]
    ELSE LET i == NextOrdinal(ords)
             now == Append(seen, i)
             rest == Walk_ToLowest(ords \ {i}, now)
         IN  IF i \notin DOMAIN pods
             THEN [kind |-> "GetPod", ordinal |-> i, inspected |-> now]
             ELSE IF pods[i] = NoLabel
             THEN [kind |-> "NoLabel", ordinal |-> i, inspected |-> now]
             ELSE IF RevisionIsTarget(pods[i])
             THEN IF ~MemberReady(i)
                  THEN [kind |-> "NotReady", ordinal |-> i, inspected |-> now]
                  ELSE rest
             ELSE IF rest.kind = "upgrade" THEN rest
                  ELSE [kind |-> "upgrade", ordinal |-> i, inspected |-> now]

\* gracefulUpgrade, lines 81-108: the walk over the live ordinals of the
\* observed set, highest first, up to the first pod that ends the pass.
RECURSIVE Walk(_, _)
Walk(ords, seen) ==
    IF ords = {} THEN [kind |-> "done", ordinal |-> -1, inspected |-> seen]
    ELSE LET i == NextOrdinal(ords)
             now == Append(seen, i)
         IN  IF i \notin DOMAIN pods
             THEN [kind |-> "GetPod", ordinal |-> i, inspected |-> now]
             ELSE IF pods[i] = NoLabel
             THEN [kind |-> "NoLabel", ordinal |-> i, inspected |-> now]
             ELSE IF RevisionIsTarget(pods[i])
             THEN IF ~MemberReady(i)
                  THEN [kind |-> "NotReady", ordinal |-> i, inspected |-> now]
                  ELSE Walk(ords \ {i}, now)
             ELSE [kind |-> "upgrade", ordinal |-> i, inspected |-> now]

Outcome(path, err, newSet, phase, target, transfers, inspected, accepted) ==
    [path |-> path, err |-> err, newSet |-> newSet, phase |-> phase,
     target |-> target, transfers |-> transfers, inspected |-> inspected,
     accepted |-> accepted]

\* Blocked without the test for PD scaling.
Blocked_TiCDCOnly(tc) == tc.ticdcPhase = "Upgrade"

\* gracefulUpgrade, lines 47-48: the dependency condition.
Blocked(tc) == tc.ticdcPhase = "Upgrade" \/ PDScaling(tc)

\* ManuallyModified without the test for an unset RollingUpdate.
ManuallyModified_OnDeleteOnly(set) == set.strategy.type = "OnDelete"

\* gracefulUpgrade, line 70: the update strategy was changed by hand.
ManuallyModified(set) == set.strategy.type = "OnDelete" \/ ~set.strategy.rolling

\* FreezePodSpec taking the whole template of the observed set.
FreezePodSpec_WholeTemplate(newSet, podSpec) ==
    [newSet EXCEPT !.template = oldSet.template]

\* FreezePodSpec leaving the new set as built.
FreezePodSpec_Skipped(newSet, podSpec) == newSet

\* RevisionsEqual never found to hold.
RevisionsEqual_Never == FALSE

\* gracefulUpgrade, line 66: the group's update revision is its current one.
RevisionsEqual == updateRevision = currentRevision

\* gracefulUpgrade, line 57: the pod spec of the new set is replaced by the
\* last applied one; the rest of the set stays as built.
FreezePodSpec(newSet, podSpec) == [newSet EXCEPT !.template.spec = podSpec]

\* PodWebhookEnabled never taken.
PodWebhookEnabled_Ignored == FALSE

\* KeepObservedCursor leaving the cursor of the new set as built.
KeepObservedCursor_Skipped(newSet, old) == newSet

\* gracefulUpgrade, line 80: before the walk the new set takes the partition
\* stored on the observed set.
KeepObservedCursor(newSet, old) == setUpgradePartition(newSet, old.strategy.partition)

\* gracefulUpgrade, line 102
PodWebhookEnabled == webhook

\* The pass going on whatever the PD status says.
NotSynced_Ignored(tc) == FALSE

\* gracefulUpgrade, line 44: !tc.Status.PD.Synced
NotSynced(tc) == ~tc.synced

\* The walk over the ordinals below the replica count, deleted or not.
WalkOrdinals_BelowReplicas(old) == 0 .. (old.replicas - 1)

\* gracefulUpgrade, line 81: helper.GetPodOrdinals(*oldSet.Spec.Replicas, oldSet)
WalkOrdinals(old) == GetPodOrdinals(old)

\* gracefulUpgrade(tc, oldSet, newSet)
gracefulUpgrade(tc, newSet) ==
    IF NotSynced(tc)
    THEN Outcome("notSynced", "NotSynced", newSet, tc.pdPhase, -1, <<>>, <<>>, FALSE)
    ELSE IF Blocked(tc)
    THEN IF ~tc.lastAppliedOK
         THEN Outcome("blocked", "GetLastAppliedConfig", newSet, tc.pdPhase,
                      -1, <<>>, <<>>, FALSE)
         ELSE Outcome("blocked", "nil", FreezePodSpec(newSet, oldSet.template.spec),
                      tc.pdPhase, -1, <<>>, <<>>, FALSE)
    ELSE IF ~templateEqual(tc, newSet, oldSet)
    THEN Outcome("templateChanged", "nil", newSet, "Upgrade", -1, <<>>, <<>>, FALSE)
    ELSE IF RevisionsEqual
    THEN Outcome("revisionEqual", "nil", newSet, "Upgrade", -1, <<>>, <<>>, FALSE)
    ELSE IF ManuallyModified(oldSet)
    THEN Outcome("manual", "nil", [newSet EXCEPT !.strategy = oldSet.strategy],
                 "Upgrade", -1, <<>>, <<>>, FALSE)
    ELSE LET set1 == KeepObservedCursor(newSet, oldSet)
             w == Walk(WalkOrdinals(oldSet), <<>>)
         IN  IF w.kind = "done"
             THEN Outcome("walk", "nil", set1, "Upgrade", -1, <<>>, w.inspected, FALSE)
             ELSE IF w.kind # "upgrade"
             THEN Outcome("walk", w.kind, set1, "Upgrade", -1, <<>>, w.inspected, FALSE)
             ELSE IF PodWebhookEnabled
             THEN Outcome("walk", "nil", setUpgradePartition(set1, w.ordinal),
                          "Upgrade", w.ordinal, <<>>, w.inspected, FALSE)
             ELSE LET u == upgradePDPod(tc, w.ordinal, set1)
                  IN  Outcome("walk", u.err, u.newSet, "Upgrade", w.ordinal,
                              u.transfers, w.inspected, u.accepted)

\* UpdateStatefulSet(newSet, oldSet): the declarative update the caller issues
\* after a pass without error.
UpdateStatefulSet(newSet, old) ==
    [old EXCEPT !.replicas = newSet.replicas,
                !.deleteSlots = newSet.deleteSlots,
                !.template = newSet.template,
                !.strategy = newSet.strategy]

\* The PD phase the status synchronisation at the start of a pass derives from
\* the snapshot: scaling takes precedence over upgrading.
ObservedPhase ==
    IF desired.replicas # oldSet.replicas THEN "Scale"
    ELSE IF updateRevision # currentRevision
            \/ \E i \in DOMAIN pods : pods[i] # NoLabel /\ pods[i] # updateRevision
    THEN "Upgrade"
    ELSE "Normal"

\* The inputs of a pass as far as the pass read them: the answer of PD to a
\* transfer request exists only when a request was made.
AsRead(tc, r) == [tc EXCEPT !.transferOk = (r.transfers = <<>> \/ tc.transferOk)]

\* One reconciliation pass of the PD group with the inputs tc: Upgrade on the
\* built set, then the update when Upgrade returned no error.
Pass(tc) ==
    \E r \in {gracefulUpgrade(tc, NewSetBuilt)} :
        /\ oldSet' = IF r.err = "nil" THEN UpdateStatefulSet(r.newSet, oldSet)
                     ELSE oldSet
        /\ pass' = [ran |-> TRUE, tc |-> AsRead(tc, r), path |-> r.path,
                    err |-> r.err, phase |-> r.phase, newSet |-> r.newSet,
                    oldSet |-> oldSet, target |-> r.target,
                    transfers |-> r.transfers, accepted |-> r.accepted,
                    inspected |-> r.inspected, applied |-> (r.err = "nil")]
        /\ UNCHANGED <<clusterDomain, webhook, desired, deletedPods, bs, tac, desiredTemplate,
                       updateRevision, currentRevision, members, leader,
                       peerMembers, pods, disturbed>>

\* pdUpgrader.Upgrade, with whatever the status of this pass holds.
Upgrade == \E tc \in PassInputs(ObservedPhase) : Pass(tc)

\* ------------------------------------------------------------- environment
config == <<clusterDomain, webhook, desired, peerMembers, bs, tac>>
settled == <<config, disturbed, deletedPods>>
revisions == <<updateRevision, currentRevision>>

\* The ordinals of a plain StatefulSet, which has no delete slots.
LiveOrdinals_Contiguous == 0 .. (oldSet.replicas - 1)

LiveOrdinals == GetPodOrdinals(oldSet)

\* The lowest ordinal the StatefulSet controller may replace.
EffectivePartition ==
    IF oldSet.strategy.rolling THEN oldSet.strategy.partition ELSE 0

\* Pods the StatefulSet controller (RollingUpdate) or the user (OnDelete)
\* replaces next.
Replaceable ==
    { i \in DOMAIN pods :
        /\ pods[i] # oldSet.template
        /\ oldSet.strategy.type = "RollingUpdate" => i >= EffectivePartition }

AllPodsUpdated ==
    /\ DOMAIN pods = LiveOrdinals
    /\ \A i \in DOMAIN pods : pods[i] = oldSet.template

\* The StatefulSet controller records the revisions of the set in its status.
StsControllerSync ==
    LET current == IF AllPodsUpdated THEN oldSet.template ELSE currentRevision IN
    /\ updateRevision # oldSet.template \/ currentRevision # current
    /\ updateRevision' = oldSet.template
    /\ currentRevision' = current
    /\ pass' = NoPass
    /\ UNCHANGED <<settled, desiredTemplate, members, leader, oldSet, pods>>

\* The highest replaceable pod is replaced by one of the update revision, once
\* the pods replaced before it are ready; its member has to join again, and
\* loses the leadership if it held it.
SubstrateReplace ==
    /\ updateRevision = oldSet.template
    /\ DOMAIN pods = LiveOrdinals
    /\ \A j \in DOMAIN pods : members[j] # "unhealthy"
    /\ Replaceable # {}
    /\ LET i == Max(Replaceable) IN
        /\ pods' = [pods EXCEPT ![i] = oldSet.template]
        /\ members' = [members EXCEPT ![i] = "unhealthy"]
        /\ leader' = IF IsLeader(i) THEN NoName ELSE leader
        /\ deletedPods' = deletedPods \cup {i}
    /\ pass' = NoPass
    /\ UNCHANGED <<config, disturbed, desiredTemplate, revisions, oldSet>>

\* The StatefulSet controller creates the missing pods and deletes the pods of
\* ordinals that are no longer live, one at a time.
SubstrateScale ==
    /\ DOMAIN pods # LiveOrdinals
    /\ \/ /\ LiveOrdinals \ DOMAIN pods # {}
          /\ LET i == Min(LiveOrdinals \ DOMAIN pods)
                 rev == IF i >= EffectivePartition THEN oldSet.template
                        ELSE currentRevision
             IN  pods' = [j \in DOMAIN pods \cup {i} |-> IF j = i THEN rev ELSE pods[j]]
          /\ UNCHANGED <<members, leader, deletedPods>>
       \/ /\ DOMAIN pods \ LiveOrdinals # {}
          /\ LET i == Max(DOMAIN pods \ LiveOrdinals) IN
             /\ pods' = [j \in DOMAIN pods \ {i} |-> pods[j]]
             /\ members' = [members EXCEPT ![i] = "absent"]
             /\ leader' = IF IsLeader(i) THEN NoName ELSE leader
             /\ deletedPods' = deletedPods \cup {i}
    /\ pass' = NoPass
    /\ UNCHANGED <<config, disturbed, desiredTemplate, revisions, oldSet>>

\* A member of a running pod joins the cluster or recovers.
MemberHealthy ==
    \E i \in DOMAIN pods :
        /\ members[i] # "healthy"
        /\ members' = [members EXCEPT ![i] = "healthy"]
        /\ pass' = NoPass
        /\ UNCHANGED <<settled, desiredTemplate, revisions, leader, oldSet, pods>>

\* A healthy member fails.
MemberFails ==
    \E i \in DOMAIN pods :
        /\ disturbed < MaxDisturbances
        /\ disturbed' = disturbed + 1
        /\ members[i] = "healthy"
        /\ members' = [members EXCEPT ![i] = "failed"]
        /\ leader' = IF IsLeader(i) THEN NoName ELSE leader
        /\ pass' = NoPass
        /\ UNCHANGED <<config, deletedPods, desiredTemplate, revisions, oldSet, pods>>

\* PD elects a leader among the healthy members.
Election ==
    /\ leader = NoName
    /\ \E i \in DOMAIN pods :
        /\ members[i] = "healthy"
        /\ leader' = PdName(i)
    /\ pass' = NoPass
    /\ UNCHANGED <<settled, desiredTemplate, revisions, members, oldSet, pods>>

\* A member (of this cluster or a peer) an accepted transfer can move the
\* leadership to.
CanLead(name) ==
    \/ name.kind = "peer"
    \/ /\ name.kind \in {"pod", "fqdn"}
       /\ name.ord \in DOMAIN pods
       /\ members[name.ord] = "healthy"

\* The leader transfer PD accepted in the last pass takes effect.
TransferTakesEffect ==
    /\ pass.accepted
    /\ CanLead(pass.transfers[1])
    /\ leader' = pass.transfers[1]
    /\ pass' = NoPass
    /\ UNCHANGED <<settled, desiredTemplate, revisions, members, oldSet, pods>>

\* The user changes the pod template of the PD group: its metadata or its spec.
UserEditsTemplate ==
    /\ desiredTemplate = InitialTemplate
    /\ desiredTemplate' \in {[InitialTemplate EXCEPT !.meta = "m2"],
                            [InitialTemplate EXCEPT !.spec = "s2"]}
    /\ pass' = NoPass
    /\ UNCHANGED <<settled, revisions, members, leader, oldSet, pods>>

\* The user asks for one replica more or less (before any template change has
\* been applied).
UserScales ==
    /\ disturbed < MaxDisturbances
    /\ disturbed' = disturbed + 1
    /\ oldSet.template = InitialTemplate
    /\ \E d \in Topologies :
        /\ d.deleteSlots = desired.deleteSlots
        /\ d.replicas \in {desired.replicas - 1, desired.replicas + 1}
        /\ desired' = d
    /\ pass' = NoPass
    /\ UNCHANGED <<clusterDomain, webhook, peerMembers, deletedPods, bs, tac, desiredTemplate, revisions,
                   members, leader, oldSet, pods>>

\* Somebody edits the update strategy of the StatefulSet by hand.
ManualStrategyEdit ==
    /\ disturbed < MaxDisturbances
    /\ disturbed' = disturbed + 1
    /\ \E s \in {[type |-> "OnDelete", rolling |-> TRUE,
                  partition |-> oldSet.strategy.partition],
                 [type |-> "RollingUpdate", rolling |-> FALSE, partition |-> -1]} :
        oldSet' = [oldSet EXCEPT !.strategy = s]
    /\ pass' = NoPass
    /\ UNCHANGED <<config, deletedPods, desiredTemplate, revisions, members, leader, pods>>

\* A pod loses its controller-revision-hash label.
LabelStripped ==
    \E i \in DOMAIN pods :
        /\ disturbed < MaxDisturbances
        /\ disturbed' = disturbed + 1
        /\ pods[i] # NoLabel
        /\ pods' = [pods EXCEPT ![i] = NoLabel]
        /\ pass' = NoPass
        /\ UNCHANGED <<config, deletedPods, desiredTemplate, revisions, members, leader, oldSet>>

\* ------------------------------------------------------------ specification
PeerEntries(own) ==
    {[name |-> own, health |-> TRUE]}
        \cup [name : { PeerName(j) : j \in 1 .. MaxPeers }, health : BOOLEAN]

PeerLists(own) ==
    {<<>>} \cup { <<e>> : e \in PeerEntries(own) }
           \cup { <<e, f>> : e \in PeerEntries(own), f \in PeerEntries(own) }

Init ==
    /\ webhook \in BOOLEAN
    /\ clusterDomain \in IF webhook THEN {FALSE} ELSE BOOLEAN
    /\ \E t \in Topologies :
        /\ oldSet = [replicas |-> t.replicas, deleteSlots |-> t.deleteSlots,
                     template |-> InitialTemplate,
                     strategy |-> ManagedStrategy(NoneEligible(t))]
        /\ desired = t
        /\ pods = [i \in GetPodOrdinals(t) |-> InitialTemplate]
        /\ members = [i \in Ordinals |->
                        IF i \in GetPodOrdinals(t) THEN "healthy" ELSE "absent"]
        /\ \E i \in GetPodOrdinals(t) :
            /\ leader \in {PdName(i), PdPodName(i)}
            /\ peerMembers \in IF t.replicas = 1 /\ ~webhook
                                THEN PeerLists(PdName(i)) ELSE {<<>>}
    /\ desiredTemplate = InitialTemplate
    /\ updateRevision = InitialTemplate
    /\ currentRevision = InitialTemplate
    /\ disturbed = 0
    /\ deletedPods = {}
    /\ bs = NoSchedule
    /\ tac = NoAutoScaler
    /\ pass = NoPass

Next ==
    \/ Upgrade
    \/ StsControllerSync
    \/ SubstrateReplace
    \/ SubstrateScale
    \/ MemberHealthy
    \/ MemberFails
    \/ Election
    \/ TransferTakesEffect
    \/ UserEditsTemplate
    \/ UserScales
    \/ ManualStrategyEdit
    \/ LabelStripped

Spec == Init /\ [][Next]_vars

\* --------------------------------------- an undisturbed rolling upgrade
\* A group of RollingReplicas members without delete slots whose new pod spec
\* has just been applied: every pod is still of the previous revision and no
\* ordinal is eligible yet.
UpdatedTemplate == [InitialTemplate EXCEPT !.spec = "s2"]

RollingTopology == [replicas |-> RollingReplicas, deleteSlots |-> {}]

InitRolling ==
    /\ webhook \in BOOLEAN
    /\ clusterDomain \in BOOLEAN
    /\ desired = RollingTopology
    /\ desiredTemplate = UpdatedTemplate
    /\ oldSet = [replicas |-> RollingReplicas, deleteSlots |-> {},
                 template |-> UpdatedTemplate,
                 strategy |-> ManagedStrategy(NoneEligible(RollingTopology))]
    /\ pods = [i \in GetPodOrdinals(RollingTopology) |-> InitialTemplate]
    /\ members = [i \in Ordinals |->
                    IF i \in GetPodOrdinals(RollingTopology) THEN "healthy"
                    ELSE "absent"]
    /\ \E i \in GetPodOrdinals(RollingTopology) : leader = PdName(i)
    /\ peerMembers = <<>>
    /\ updateRevision = UpdatedTemplate
    /\ currentRevision = InitialTemplate
    /\ disturbed = 0
    /\ deletedPods = {}
    /\ bs = NoSchedule
    /\ tac = NoAutoScaler
    /\ pass = NoPass

\* pdUpgrader.Upgrade in a pass whose status is synced, with no dependency
\* upgrading and the last applied configuration readable.
UpgradeUnblocked ==
    \E tc \in { t \in PassInputs(ObservedPhase) :
                    t.synced /\ t.ticdcPhase = "Normal" /\ t.lastAppliedOK } :
        Pass(tc)

NextRolling ==
    \/ UpgradeUnblocked
    \/ StsControllerSync
    \/ SubstrateReplace
    \/ MemberHealthy
    \/ Election
    \/ TransferTakesEffect

SpecRolling == InitRolling /\ [][NextRolling]_vars

\* ------------------------------- a rolling upgrade of any group, with fairness
\* Any group of the model, delete slots included, whose new pod spec has just
\* been applied.
InitLive ==
    /\ webhook \in BOOLEAN
    /\ clusterDomain \in IF webhook THEN {FALSE} ELSE BOOLEAN
    /\ \E t \in Topologies :
        /\ desired = t
        /\ oldSet = [replicas |-> t.replicas, deleteSlots |-> t.deleteSlots,
                     template |-> UpdatedTemplate,
                     strategy |-> ManagedStrategy(NoneEligible(t))]
        /\ pods = [i \in GetPodOrdinals(t) |-> InitialTemplate]
        /\ members = [i \in Ordinals |->
                        IF i \in GetPodOrdinals(t) THEN "healthy" ELSE "absent"]
        /\ \E i \in GetPodOrdinals(t) :
            /\ leader = PdName(i)
            /\ peerMembers \in IF t.replicas = 1 /\ ~webhook
                                THEN PeerLists(PdName(i)) ELSE {<<>>}
    /\ desiredTemplate = UpdatedTemplate
    /\ updateRevision = UpdatedTemplate
    /\ currentRevision = InitialTemplate
    /\ disturbed = 0
    /\ deletedPods = {}
    /\ bs = NoSchedule
    /\ tac = NoAutoScaler
    /\ pass = NoPass

\* An unblocked pass in which PD accepts the transfer request, if one is made.
UpgradeAccepted ==
    \E tc \in { t \in PassInputs(ObservedPhase) :
                    /\ t.synced /\ t.ticdcPhase = "Normal" /\ t.lastAppliedOK
                    /\ t.transferOk } :
        Pass(tc)

\* Passes keep being run; the StatefulSet controller keeps replacing the pods
\* at or above the partition and recording the revisions; members of running
\* pods become healthy; PD elects a leader; a transfer PD accepted takes
\* effect.
FairLive ==
    /\ WF_vars(UpgradeAccepted)
    /\ WF_vars(StsControllerSync)
    /\ WF_vars(SubstrateReplace)
    /\ WF_vars(MemberHealthy)
    /\ WF_vars(Election)
    /\ SF_vars(TransferTakesEffect)

SpecLive == InitLive /\ [][NextRolling]_vars /\ FairLive

\* ------------------------------------- the choice of the transfer target
\* One pass on any status the Upgrader can be handed in the middle of an
\* upgrade: pods of the old or the new revision, members on record or not,
\* pods still to be created or deleted, the leadership recorded under either
\* name, and any list of peer members.
SelectPeerEntries(own) ==
    {[name |-> own, health |-> TRUE]}
        \cup [name : { PeerName(j) : j \in 1 .. MaxSelectPeers }, health : BOOLEAN]

SelectPeerLists(own) ==
    {<<>>} \cup { <<e>> : e \in SelectPeerEntries(own) }
           \cup { <<e, f>> : e \in SelectPeerEntries(own), f \in SelectPeerEntries(own) }

InitSelect ==
    /\ webhook = FALSE
    /\ clusterDomain \in BOOLEAN
    /\ \E t \in Topologies, running \in Topologies :
        /\ running.deleteSlots = t.deleteSlots
        /\ desired = t
        /\ oldSet = [replicas |-> t.replicas, deleteSlots |-> t.deleteSlots,
                     template |-> UpdatedTemplate,
                     strategy |-> ManagedStrategy(NoneEligible(t))]
        /\ pods \in [GetPodOrdinals(running) -> {InitialTemplate, UpdatedTemplate}]
        /\ members \in { m \in [Ordinals -> {"healthy", "absent"}] :
                            \A i \in Ordinals :
                                i \notin GetPodOrdinals(running) => m[i] = "absent" }
        /\ \E i \in GetPodOrdinals(running) :
            /\ leader \in {PdName(i), PdPodName(i)}
            /\ peerMembers \in IF running.replicas = 1
                                THEN SelectPeerLists(PdName(i)) ELSE {<<>>}
    /\ desiredTemplate = UpdatedTemplate
    /\ updateRevision = UpdatedTemplate
    /\ currentRevision = InitialTemplate
    /\ disturbed = 0
    /\ deletedPods = {}
    /\ bs = NoSchedule
    /\ tac = NoAutoScaler
    /\ pass = NoPass

NextSelect == UpgradeUnblocked

SpecSelect == InitSelect /\ [][NextSelect]_vars

\* ------------------------------------------------- the scaling of a group
\* A group running the live ordinals of one topology is asked for another
\* one: a pass applies the desired replicas and delete slots, and the
\* StatefulSet controller creates and deletes pods until the live ordinals of
\* the set are the pods running.  The members of the pods running at the start
\* are healthy; a pod created later has no member on record yet.
ScaleTopologies ==
    [replicas : 0 .. MaxScaleReplicas, deleteSlots : SUBSET (0 .. MaxScaleSlot)]

ScaleOrdinals == 0 .. (MaxScaleReplicas + MaxScaleSlot + 1)

InitScale ==
    /\ webhook = FALSE
    /\ clusterDomain = FALSE
    /\ \E t \in ScaleTopologies :
        /\ oldSet = [replicas |-> t.replicas, deleteSlots |-> t.deleteSlots,
                     template |-> InitialTemplate,
                     strategy |-> ManagedStrategy(NoneEligible(t))]
        /\ pods = [i \in GetPodOrdinals(t) |-> InitialTemplate]
        /\ members = [i \in Ordinals \cup ScaleOrdinals |->
                        IF i \in GetPodOrdinals(t) THEN "healthy" ELSE "absent"]
        /\ leader = IF t.replicas = 0 THEN NoName ELSE PdName(GetMinPodOrdinal(t))
    /\ desired \in ScaleTopologies
    /\ peerMembers = <<>>
    /\ desiredTemplate = InitialTemplate
    /\ updateRevision = InitialTemplate
    /\ currentRevision = InitialTemplate
    /\ disturbed = 0
    /\ deletedPods = {}
    /\ bs = NoSchedule
    /\ tac = NoAutoScaler
    /\ pass = NoPass

NextScale ==
    \/ UpgradeUnblocked
    \/ SubstrateScale

SpecScale == InitScale /\ [][NextScale]_vars

\* ------------------------------------------------- pump member manager
\* In SpecPump the observed set, the desired topology, the desired template
\* and the pass record are those of the pump group; the other variables stay
\* as they start.  An observed set of NoSet is a StatefulSet the lister does
\* not find.

\* What a pass of the pump member manager obtains afresh: whether the cluster
\* has a pump spec, tc.Spec.Paused, the phases of the four components it waits
\* for, the headless service the lister shows, and the first call that returns
\* an error, if any, with the class of that error.
PumpSteps ==
    {"service", "get", "status", "configmap", "build", "annotation", "create",
     "scale", "update"}

ErrorClasses == {"fatal", "retryable", "ignorable"}

PumpInputs ==
    { tc \in [hasPump : BOOLEAN, paused : BOOLEAN,
              ticdcPhase : {"Normal", "Upgrade"}, tiflashPhase : {"Normal", "Upgrade"},
              pdPhase : {"Normal", "Upgrade"}, tikvPhase : {"Normal", "Upgrade"},
              svc : {"missing", "same", "differs", "orphan"},
              fails : PumpSteps \cup {"none"}, class : ErrorClasses] :
        \* the values a pass does not get to read are left at their defaults
        /\ tc.fails = "none" => tc.class = "fatal"
        /\ tc.paused => tc.svc = "same"
        /\ ~tc.hasPump =>
              /\ ~tc.paused /\ tc.svc = "same" /\ tc.fails = "none"
              /\ tc.ticdcPhase = "Normal" /\ tc.tiflashPhase = "Normal"
              /\ tc.pdPhase = "Normal" /\ tc.tikvPhase = "Normal" }

NoPumpInput ==
    [hasPump |-> TRUE, paused |-> FALSE, ticdcPhase |-> "Normal",
     tiflashPhase |-> "Normal", pdPhase |-> "Normal", tikvPhase |-> "Normal",
     svc |-> "same", fails |-> "none", class |-> "fatal"]

NoPumpPass ==
    [ran |-> FALSE, tc |-> NoPumpInput, oldSet |-> NoSet, newSet |-> NoSet,
     steps |-> <<>>, svcCall |-> "none", calls |-> <<>>, scaled |-> "none",
     err |-> "nil", class |-> "none"]

\* errors.IsNotFound(err) taking every lister error for a missing set.
notFound_AnyError(tc, old) == old = NoSet \/ tc.fails = "get"

\* errors.IsNotFound(err) of the lister's Get.
notFound(tc, old) == old = NoSet /\ tc.fails # "get"

\* getNewPumpStatefulSet(tc, cm): tc.Spec.Pump.Replicas, the pod template of
\* the spec, and an update strategy of the type of the spec with no
\* partition.
getNewPumpStatefulSet ==
    [replicas |-> desired.replicas, deleteSlots |-> {},
     template |-> desiredTemplate,
     strategy |-> [type |-> "RollingUpdate", rolling |-> FALSE, partition |-> -1]]

\* The Scaler refuses to act while a component upstream is upgrading.
UpstreamUpgrading(tc) ==
    \/ tc.ticdcPhase = "Upgrade" \/ tc.tiflashPhase = "Upgrade"
    \/ tc.pdPhase = "Upgrade" \/ tc.tikvPhase = "Upgrade"

\* m.scaler.Scale(tc, oldSet, newSet): the action it reports and the new set
\* it leaves, one replica nearer to the desired count unless it is blocked.
Scale(tc, old, newSet) ==
    IF UpstreamUpgrading(tc)
    THEN [action |-> "Blocked", newSet |-> [newSet EXCEPT !.replicas = old.replicas]]
    ELSE IF newSet.replicas > old.replicas
    THEN [action |-> "GrowTo", newSet |-> [newSet EXCEPT !.replicas = old.replicas + 1]]
    ELSE IF newSet.replicas < old.replicas
    THEN [action |-> "ShrinkTo", newSet |-> [newSet EXCEPT !.replicas = old.replicas - 1]]
    ELSE [action |-> "NoOp", newSet |-> newSet]

\* The wait of the pump group for PD and TiKV only.
PumpBlocked_PDAndTiKVOnly(tc) ==
    tc.pdPhase = "Upgrade" \/ tc.tikvPhase = "Upgrade"

\* The wait of the pump group only while all four are upgrading at once.
PumpBlocked_AllAtOnce(tc) ==
    /\ tc.ticdcPhase = "Upgrade"
    /\ tc.tiflashPhase = "Upgrade"
    /\ tc.pdPhase = "Upgrade"
    /\ tc.tikvPhase = "Upgrade"

\* The wait for the upgrades of TiCDC, TiFlash, PD and TiKV to be done.
PumpBlocked(tc) ==
    \/ tc.ticdcPhase = "Upgrade"
    \/ tc.tiflashPhase = "Upgrade"
    \/ tc.pdPhase = "Upgrade"
    \/ tc.tikvPhase = "Upgrade"

\* What a pass did: the sub-steps it entered and the calls it made on the
\* group, in order, what the Scaler reported, the error returned and the set
\* it leaves.
PumpOutcome(steps, calls, scaled, err, newSet, set) ==
    [steps |-> steps, calls |-> calls, scaled |-> scaled, err |-> err,
     newSet |-> newSet, set |-> set]

\* The group is missing: annotate the new set and create it.
createPumpStatefulSet(tc, old, newSet, steps) ==
    IF tc.fails = "annotation"
    THEN PumpOutcome(steps, <<>>, "none", "SetLastAppliedConfig", newSet, old)
    ELSE IF tc.fails = "create"
    THEN PumpOutcome(steps \o <<"create">>, <<"create">>, "none",
                     "CreateStatefulSet", newSet, old)
    ELSE PumpOutcome(steps \o <<"create">>, <<"create">>, "none", "nil",
                     newSet, newSet)

\* The group exists: scale, wait for the upgrades upstream, update.
updatePumpStatefulSet(tc, old, newSet, steps) ==
    IF tc.fails = "scale"
    THEN PumpOutcome(steps \o <<"scale">>, <<"scale">>, "none", "Scale", newSet, old)
    ELSE LET sc == Scale(tc, old, newSet) IN
         IF PumpBlocked(tc)
         THEN PumpOutcome(steps \o <<"scale">>, <<"scale">>, sc.action, "nil",
                          sc.newSet, old)
         ELSE IF tc.fails = "update"
         THEN PumpOutcome(steps \o <<"scale", "update">>, <<"scale", "update">>,
                          sc.action, "UpdateStatefulSet", sc.newSet, old)
         ELSE PumpOutcome(steps \o <<"scale", "update">>, <<"scale", "update">>,
                          sc.action, "nil", sc.newSet,
                          UpdateStatefulSet(sc.newSet, old))

\* The pause test of syncPumpStatefulSetForTidbCluster left out.
PumpPaused_Ignored(tc) == FALSE

\* tc.Spec.Paused, as syncPumpStatefulSetForTidbCluster reads it.
PumpPaused(tc) == tc.paused

\* pumpMemberManager.syncPumpStatefulSetForTidbCluster
syncPumpStatefulSetForTidbCluster(tc, old) ==
    IF tc.fails = "get" /\ ~notFound(tc, old)
    THEN PumpOutcome(<<>>, <<>>, "none", "GetStatefulSet", NoSet, old)
    ELSE IF tc.fails = "status" /\ old # NoSet
    THEN PumpOutcome(<<"status">>, <<>>, "none", "SyncStatus", NoSet, old)
    ELSE IF PumpPaused(tc)
    THEN PumpOutcome(<<"status">>, <<>>, "none", "nil", NoSet, old)
    ELSE IF tc.fails = "configmap"
    THEN PumpOutcome(<<"status", "configmap">>, <<>>, "none", "SyncConfigMap",
                     NoSet, old)
    ELSE IF tc.fails = "build"
    THEN PumpOutcome(<<"status", "configmap", "build">>, <<>>, "none",
                     "GetNewSet", NoSet, old)
    ELSE IF notFound(tc, old)
    THEN createPumpStatefulSet(tc, old, getNewPumpStatefulSet,
                               <<"status", "configmap", "build">>)
    ELSE updatePumpStatefulSet(tc, old, getNewPumpStatefulSet,
                               <<"status", "configmap", "build">>)

\* pumpMemberManager.syncHeadlessService: the call it makes on the service and
\* the error it returns.
syncHeadlessService(tc) ==
    IF tc.paused THEN [call |-> "none", err |-> "nil"]
    ELSE LET call == IF tc.svc = "missing" THEN "CreateService"
                     ELSE IF tc.svc \in {"differs", "orphan"} THEN "UpdateService"
                     ELSE "none"
         IN  [call |-> call,
              err |-> IF tc.fails = "service" THEN "SyncHeadlessService" ELSE "nil"]

\* The class of the error a pass returns: the error of the failing call as it
\* is, but for the lister error that is formatted into a new one.
PumpErrorClass(tc, err) ==
    IF err = "nil" THEN "none"
    ELSE IF err = "GetStatefulSet" THEN "fatal"
    ELSE tc.class

\* What Sync did and returns.
SyncOutcome(svcCall, r, class) ==
    [steps |-> r.steps, svcCall |-> svcCall, calls |-> r.calls,
     scaled |-> r.scaled, err |-> r.err, class |-> class, newSet |-> r.newSet,
     set |-> r.set]

\* Sync going on to the StatefulSet after the service failed.
Sync_ServiceErrorDropped(tc, old) ==
    IF ~tc.hasPump
    THEN SyncOutcome("none", PumpOutcome(<<>>, <<>>, "none", "nil", NoSet, old), "none")
    ELSE LET sv == syncHeadlessService(tc)
             r == syncPumpStatefulSetForTidbCluster(tc, old)
         IN  SyncOutcome(sv.call, [r EXCEPT !.steps = <<"service">> \o r.steps],
                         PumpErrorClass(tc, r.err))

\* pumpMemberManager.Sync
Sync(tc, old) ==
    IF ~tc.hasPump
    THEN SyncOutcome("none", PumpOutcome(<<>>, <<>>, "none", "nil", NoSet, old), "none")
    ELSE LET sv == syncHeadlessService(tc) IN
         IF sv.err # "nil"
         THEN SyncOutcome(sv.call,
                          PumpOutcome(<<"service">>, <<>>, "none", sv.err, NoSet, old),
                          PumpErrorClass(tc, sv.err))
         ELSE LET r == syncPumpStatefulSetForTidbCluster(tc, old)
              IN  SyncOutcome(sv.call, [r EXCEPT !.steps = <<"service">> \o r.steps],
                              PumpErrorClass(tc, r.err))

pumpFrame ==
    <<clusterDomain, webhook, updateRevision, currentRevision, members, leader,
      peerMembers, pods, disturbed, deletedPods, bs, tac>>

\* pumpMemberManager.Sync on a cluster taken from the queue, with whatever
\* the cluster holds in this pass.
PumpSync ==
    /\ ~pass.ran
    /\ \E tc \in PumpInputs :
        \E r \in {Sync(tc, oldSet)} :
            /\ oldSet' = r.set
            /\ pass' = [ran |-> TRUE, tc |-> tc, oldSet |-> oldSet,
                        newSet |-> r.newSet, steps |-> r.steps,
                        svcCall |-> r.svcCall, calls |-> r.calls,
                        scaled |-> r.scaled, err |-> r.err, class |-> r.class]
            /\ UNCHANGED <<pumpFrame, desired, desiredTemplate>>

\* The cluster is queued again: on an error, or at the next resync.
PumpRequeue ==
    /\ pass.ran
    /\ pass' = NoPumpPass
    /\ UNCHANGED <<pumpFrame, oldSet, desired, desiredTemplate>>

\* The user changes spec.pump.replicas.
PumpUserScales ==
    \E n \in 0 .. MaxPumpReplicas :
        /\ n # desired.replicas
        /\ desired' = [desired EXCEPT !.replicas = n]
        /\ pass' = NoPumpPass
        /\ UNCHANGED <<pumpFrame, oldSet, desiredTemplate>>

\* The user changes the pump image or configuration.
PumpUserEditsTemplate ==
    \E t \in {InitialTemplate, UpdatedTemplate} :
        /\ t # desiredTemplate
        /\ desiredTemplate' = t
        /\ pass' = NoPumpPass
        /\ UNCHANGED <<pumpFrame, oldSet, desired>>

\* The StatefulSet of the pump group is deleted.
PumpSetDeleted ==
    /\ oldSet # NoSet
    /\ oldSet' = NoSet
    /\ pass' = NoPumpPass
    /\ UNCHANGED <<pumpFrame, desired, desiredTemplate>>

InitPump ==
    /\ webhook = FALSE
    /\ clusterDomain = FALSE
    /\ oldSet = NoSet
    /\ desired \in [replicas : 0 .. MaxPumpReplicas, deleteSlots : {{}}]
    /\ desiredTemplate = InitialTemplate
    /\ updateRevision = InitialTemplate
    /\ currentRevision = InitialTemplate
    /\ pods = <<>>
    /\ members = [i \in Ordinals |-> "absent"]
    /\ leader = NoName
    /\ peerMembers = <<>>
    /\ disturbed = 0
    /\ deletedPods = {}
    /\ bs = NoSchedule
    /\ tac = NoAutoScaler
    /\ pass = NoPumpPass

NextPump ==
    \/ PumpSync
    \/ PumpRequeue
    \/ PumpUserScales
    \/ PumpUserEditsTemplate
    \/ PumpSetDeleted

SpecPump == InitPump /\ [][NextPump]_vars

\* ------------------------------------------- pump status observation alone
\* In SpecPumpStatus oldSet is the pump group (NoSet while it is not
\* created), pods is the list of pump pods in the order the lister returns
\* them, each with its controller-revision-hash label, and pass holds the
\* pump phase of the status and the record of the last status observation.

\* The lister returns at most MaxPumpPods pump pods.
MaxPumpPods == 2

PumpPodLabels == {InitialTemplate, UpdatedTemplate, NoLabel}

PumpPodLists ==
    UNION { [1 .. n -> PumpPodLabels] : n \in 0 .. MaxPumpPods }

\* What a status observation obtains afresh: whether the generation of the
\* set is ahead of the observed one, whether listing the pods fails, and
\* whether the binlog client or its PumpNodeStatus call fails.
StatusInputs ==
    [generationPending : BOOLEAN, listFails : BOOLEAN, clientFails : BOOLEAN]

NoStatusInput ==
    [generationPending |-> FALSE, listFails |-> FALSE, clientFails |-> FALSE]

\* statefulSetIsUpgrading(set): the revisions of the status differ, or an
\* update of the set has not been observed yet.
statefulSetIsUpgrading(tc) ==
    currentRevision # updateRevision \/ tc.generationPending

\* The loop of pumpStatefulSetIsUpgrading passing over a pod without the
\* revision label.
RECURSIVE PodsUpgrading_SkipUnlabelled(_, _)
PodsUpgrading_SkipUnlabelled(podList, n) ==
    IF n > Len(podList) THEN FALSE
    ELSE IF podList[n] = NoLabel THEN PodsUpgrading_SkipUnlabelled(podList, n + 1)
    ELSE IF podList[n] # updateRevision THEN TRUE
    ELSE PodsUpgrading_SkipUnlabelled(podList, n + 1)

\* pumpStatefulSetIsUpgrading, lines 544-552: the loop over the listed pods
\* from the n-th on.
RECURSIVE PodsUpgrading(_, _)
PodsUpgrading(podList, n) ==
    IF n > Len(podList) THEN FALSE
    ELSE IF podList[n] = NoLabel THEN FALSE
    ELSE IF podList[n] # updateRevision THEN TRUE
    ELSE PodsUpgrading(podList, n + 1)

\* pumpMemberManager.pumpStatefulSetIsUpgrading(set, tc)
pumpStatefulSetIsUpgrading(tc, podList) ==
    IF statefulSetIsUpgrading(tc) THEN [upgrading |-> TRUE, err |-> "nil"]
    ELSE IF tc.listFails THEN [upgrading |-> FALSE, err |-> "ListPods"]
    ELSE [upgrading |-> PodsUpgrading(podList, 1), err |-> "nil"]

\* pumpMemberManager.syncTiDBClusterStatus(tc, set): the pump phase it
\* leaves and the error it returns.
syncTiDBClusterStatus(tc, set, podList, phase) ==
    IF set = NoSet THEN [phase |-> phase, err |-> "nil"]
    ELSE LET u == pumpStatefulSetIsUpgrading(tc, podList) IN
         IF u.err # "nil" THEN [phase |-> phase, err |-> u.err]
         ELSE [phase |-> IF u.upgrading THEN "Upgrade" ELSE "Normal",
               err |-> IF tc.clientFails THEN "PumpNodeStatus" ELSE "nil"]

NoObservation ==
    [ran |-> FALSE, tc |-> NoStatusInput, before |-> "Normal",
     phase |-> "Normal", err |-> "nil"]

statusFrame ==
    <<clusterDomain, webhook, desired, desiredTemplate, members, leader,
      peerMembers, disturbed, deletedPods, bs, tac>>

\* The status of the pump group is observed.
PumpStatusSync ==
    /\ \E tc \in StatusInputs :
        \E r \in {syncTiDBClusterStatus(tc, oldSet, pods, pass.phase)} :
            pass' = [ran |-> TRUE, tc |-> tc, before |-> pass.phase,
                     phase |-> r.phase, err |-> r.err]
    /\ UNCHANGED <<statusFrame, oldSet, pods, updateRevision, currentRevision>>

\* Pump pods come and go, are replaced, or lose their label; the lister
\* returns them in any order.
PumpPodsChange ==
    /\ oldSet # NoSet
    /\ \E podList \in PumpPodLists : pods' = podList
    /\ pass' = [pass EXCEPT !.ran = FALSE]
    /\ UNCHANGED <<statusFrame, oldSet, updateRevision, currentRevision>>

\* The revisions of the status of the set move: an update is rolled out, or
\* has been rolled out.
PumpRevisionsMove ==
    /\ oldSet # NoSet
    /\ \E u \in {InitialTemplate, UpdatedTemplate} :
        \E c \in {InitialTemplate, UpdatedTemplate} :
            /\ updateRevision' = u
            /\ currentRevision' = c
    /\ pass' = [pass EXCEPT !.ran = FALSE]
    /\ UNCHANGED <<statusFrame, oldSet, pods>>

\* The pump group is created.
PumpSetCreated ==
    /\ oldSet = NoSet
    /\ oldSet' = getNewPumpStatefulSet
    /\ pass' = [pass EXCEPT !.ran = FALSE]
    /\ UNCHANGED <<statusFrame, pods, updateRevision, currentRevision>>

InitPumpStatus ==
    /\ webhook = FALSE
    /\ clusterDomain = FALSE
    /\ oldSet = NoSet
    /\ desired = [replicas |-> MaxPumpPods, deleteSlots |-> {}]
    /\ desiredTemplate = InitialTemplate
    /\ updateRevision = InitialTemplate
    /\ currentRevision = InitialTemplate
    /\ pods = <<>>
    /\ members = [i \in Ordinals |-> "absent"]
    /\ leader = NoName
    /\ peerMembers = <<>>
    /\ disturbed = 0
    /\ deletedPods = {}
    /\ bs = NoSchedule
    /\ tac = NoAutoScaler
    /\ pass = NoObservation

NextPumpStatus ==
    \/ PumpStatusSync
    \/ PumpPodsChange
    \/ PumpRevisionsMove
    \/ PumpSetCreated

SpecPumpStatus == InitPumpStatus /\ [][NextPumpStatus]_vars

\* ------------------------------------------------- backup schedule manager
\* In SpecBackup the variable bs holds the BackupSchedule (its GC policy and
\* its status), the backups of the schedule as the API server has them, the
\* names the lister shows, the clock, and the record of the last Sync.

\* The most scheduled times getLastScheduledTime collects.
TooManyMissed == 100

\* The schedule of the model: a backup every Period units of time.
Period == 2
\* spec.maxReservedTime and spec.maxBackups of the model.
ReservedTime == 3
MaxBackups == 1
\* Time passes by single units MaxTicks times and by one long outage; a Sync
\* starts while at most MaxBackupObjects backups exist.
MaxTicks == 6
MaxOutages == 1
MaxBackupObjects == 2

\* An outage long enough for more than TooManyMissed scheduled times.
Outage == (TooManyMissed + 1) * Period

\* A nil *metav1.Time.
Nil == -1
\* bs.ObjectMeta.CreationTimestamp
CreationTimestamp == 0
\* bs.GetBackupCRDName(timestamp); the empty name is that of no backup.
GetBackupCRDName(timestamp) == <<timestamp>>
NoBackup == <<>>

\* What a Sync obtains afresh: spec.pause, the first call of the pass that
\* returns an error, the first call of the GC that does, and whether the
\* lister has caught up with a backup the pass created by the time the GC
\* lists the backups. The GC fails at its first or at its second DeleteBackup
\* call; listOrder is the order in which the lister returns the backups.
BackupInputs ==
    { tc \in [pause : BOOLEAN,
              fails : {"none", "getBackup", "parse", "deleteJob", "create"},
              gcFails : {"none", "duration", "list", "delete", "delete2"},
              listOrder : {"newestFirst", "oldestFirst"},
              listerFresh : BOOLEAN] :
        /\ tc.pause => tc.fails = "none"
        /\ (tc.pause \/ tc.fails # "none") => tc.gcFails = "none"
        /\ tc.listOrder = "oldestFirst" => tc.gcFails = "delete2"
        /\ tc.listerFresh => ~tc.pause /\ tc.fails = "none" }

NoBackupInput ==
    [pause |-> FALSE, fails |-> "none", gcFails |-> "none",
     listOrder |-> "newestFirst", listerFresh |-> FALSE]

\* bs.Status as far as the manager reads and writes it.
BackupStatus(lastBackup, lastBackupTime, allBackupCleanTime) ==
    [lastBackup |-> lastBackup, lastBackupTime |-> lastBackupTime,
     allBackupCleanTime |-> allBackupCleanTime]

NoSync ==
    [ran |-> FALSE, tc |-> NoBackupInput,
     before |-> BackupStatus(NoBackup, Nil, Nil), listedBefore |-> {},
     backupsBefore |-> <<>>, refreshedBefore |-> Nil, missed |-> 0, tooMany |-> FALSE, scheduled |-> Nil,
     created |-> NoBackup, err |-> "nil",
     gcListed |-> {}, gcDeleted |-> {}, reset |-> FALSE]

\* v1alpha1.IsBackupComplete(b) || (IsBackupScheduled(b) && IsBackupFailed(b))
BackupStates == {"pending", "failedUnscheduled", "running", "failed", "complete"}
BackupDone(state) == state \in {"complete", "failed"}

\* canPerformNextBackup waiting for unfinished backups only when they were
\* scheduled.
canPerformNextBackup_ScheduledOnly(tc, status, listed, backups) ==
    IF tc.fails = "getBackup" THEN "GetBackup"
    ELSE IF status.lastBackup \notin listed THEN "nil"
    ELSE IF backups[status.lastBackup].state # "running" THEN "nil"
    ELSE "StillRunning"

\* backupScheduleManager.canPerformNextBackup: the error it returns.
canPerformNextBackup(tc, status, listed, backups) ==
    IF tc.fails = "getBackup" THEN "GetBackup"
    ELSE IF status.lastBackup \notin listed THEN "nil"
    ELSE IF BackupDone(backups[status.lastBackup].state) THEN "nil"
    ELSE "StillRunning"

\* sched.Next(t): the first scheduled time after t.
SchedNext(t) == ((t \div Period) + 1) * Period

\* The loop of getLastScheduledTime from t on: how many scheduled times up to
\* now it collected, the last of them, and whether it gave up.
RECURSIVE CollectTimes(_, _, _, _)
CollectTimes(t, now, count, last) ==
    IF t > now THEN [tooMany |-> FALSE, count |-> count, last |-> last]
    ELSE IF count + 1 > TooManyMissed
    THEN [tooMany |-> TRUE, count |-> count + 1, last |-> t]
    ELSE CollectTimes(SchedNext(t), now, count + 1, t)

\* The reference time taken from AllBackupCleanTime before LastBackupTime.
EarliestTime_CleanTimeFirst(status) ==
    IF status.allBackupCleanTime # Nil THEN status.allBackupCleanTime
    ELSE IF status.lastBackupTime # Nil THEN status.lastBackupTime
    ELSE CreationTimestamp

\* The time the missed schedule times are counted from.
EarliestTime(status) ==
    IF status.lastBackupTime # Nil THEN status.lastBackupTime
    ELSE IF status.allBackupCleanTime # Nil THEN status.allBackupCleanTime
    ELSE CreationTimestamp

\* The last collected time taken whether or not the loop gave up.
GiveUp_Never(c) == FALSE

\* getLastScheduledTime, line 174: more than 100 times were collected.
GiveUp(c) == c.tooMany

\* getLastScheduledTime returning the first of the missed times.
LastOf_First(status, now, c) == SchedNext(EarliestTime(status))

\* getLastScheduledTime, line 190: the last of the collected times.
LastOf(status, now, c) == c.last

\* The reference time left as it was when the loop gave up.
RefreshCleanTime_Kept(status, now) == status

\* getLastScheduledTime, line 178: bs.Status.AllBackupCleanTime = &now
RefreshCleanTime(status, now) == [status EXCEPT !.allBackupCleanTime = now]

\* getLastScheduledTime(bs, nowFn): the time to schedule (Nil for none), the
\* error, and the status it leaves.
getLastScheduledTime(tc, status, now) ==
    IF tc.fails = "parse"
    THEN [time |-> Nil, err |-> "ParseSchedule", status |-> status,
          missed |-> 0, tooMany |-> FALSE]
    ELSE IF EarliestTime(status) > now
    THEN [time |-> Nil, err |-> "nil", status |-> status, missed |-> 0,
          tooMany |-> FALSE]
    ELSE LET c == CollectTimes(SchedNext(EarliestTime(status)), now, 0, Nil) IN
         IF GiveUp(c)
         THEN IF status.lastBackupTime = Nil /\ status.allBackupCleanTime # Nil
              THEN [time |-> Nil, err |-> "RefreshAllBackupCleanTime",
                    status |-> RefreshCleanTime(status, now),
                    missed |-> c.count, tooMany |-> TRUE]
              ELSE [time |-> Nil, err |-> "nil", status |-> status,
                    missed |-> c.count, tooMany |-> TRUE]
         ELSE IF c.count = 0
         THEN [time |-> Nil, err |-> "nil", status |-> status, missed |-> 0,
               tooMany |-> FALSE]
         ELSE [time |-> LastOf(status, now, c), err |-> "nil", status |-> status,
               missed |-> c.count, tooMany |-> FALSE]

\* The body of Sync, before the deferred GC: the error it returns, the status
\* it leaves and the backup it created.
SyncBody(tc, status, listed, backups, now) ==
    IF tc.pause
    THEN [err |-> "Paused", status |-> status, created |-> NoBackup,
          scheduled |-> Nil, missed |-> 0, tooMany |-> FALSE]
    ELSE IF canPerformNextBackup(tc, status, listed, backups) # "nil"
    THEN [err |-> canPerformNextBackup(tc, status, listed, backups),
          status |-> status, created |-> NoBackup, scheduled |-> Nil,
          missed |-> 0, tooMany |-> FALSE]
    ELSE LET g == getLastScheduledTime(tc, status, now) IN
         IF g.time = Nil
         THEN [err |-> g.err, status |-> g.status, created |-> NoBackup,
               scheduled |-> Nil, missed |-> g.missed, tooMany |-> g.tooMany]
         ELSE IF tc.fails = "deleteJob"
         THEN [err |-> "nil", status |-> g.status, created |-> NoBackup,
               scheduled |-> g.time, missed |-> g.missed, tooMany |-> FALSE]
         ELSE IF tc.fails = "create" \/ GetBackupCRDName(g.time) \in DOMAIN backups
         THEN [err |-> "CreateBackup", status |-> g.status, created |-> NoBackup,
               scheduled |-> g.time, missed |-> g.missed, tooMany |-> FALSE]
         ELSE [err |-> "nil",
               status |-> BackupStatus(GetBackupCRDName(g.time), g.time, Nil),
               created |-> GetBackupCRDName(g.time), scheduled |-> g.time,
               missed |-> g.missed, tooMany |-> FALSE]

\* The class of the error Sync returns.
BackupErrorClass(err) ==
    IF err = "nil" THEN "none"
    ELSE IF err = "Paused" THEN "ignorable"
    ELSE IF err \in {"StillRunning", "RefreshAllBackupCleanTime"} THEN "retryable"
    ELSE "fatal"

\* backupGCByMaxReservedTime: the listed backups that have expired.
Expired(list, backups, now) ==
    { b \in list : ~(backups[b].created + ReservedTime > now) }

\* byCreateTimeDesc: b comes before c.
NewerThan(backups, b, c) ==
    \/ backups[b].created > backups[c].created
    \/ backups[b].created = backups[c].created /\ b[1] > c[1]

\* backupGCByMaxBackups: the listed backups after the MaxBackups newest.
Surplus(list, backups) ==
    { b \in list :
        Cardinality({ c \in list : NewerThan(backups, c, b) }) >= MaxBackups }

\* The test of the GC for a reset requiring that something was deleted.
AllDeleted_AndSome(deleted, list) ==
    Cardinality(deleted) = Cardinality(list) /\ deleted # {}

\* deleteCount == len(backupsList)
AllDeleted(deleted, list) == Cardinality(deleted) = Cardinality(list)

\* resetLastBackup
resetLastBackup(status, now) == BackupStatus(NoBackup, Nil, now)

\* The GC going on after a DeleteBackup call has failed.
DeletedBeforeFailure_All(tc, policy, doomed, backups) == doomed

\* The backups deleted before the DeleteBackup call that fails: the loops
\* return at the first error (lines 293-296 and 327-330). The list of
\* backupGCByMaxBackups is sorted, newest first.
DeletedBeforeFailure(tc, policy, doomed, backups) ==
    IF tc.gcFails = "delete" THEN {}
    ELSE { b \in doomed :
             \A c \in doomed \ {b} :
                IF policy = "max" \/ tc.listOrder = "newestFirst"
                THEN NewerThan(backups, b, c)
                ELSE NewerThan(backups, c, b) }

\* The DeleteBackup call that is to fail takes place.
DeleteFails(tc, doomed) ==
    \/ tc.gcFails = "delete" /\ doomed # {}
    \/ tc.gcFails = "delete2" /\ Cardinality(doomed) >= 2

\* backupGC: the backups it lists and deletes and the status it leaves.
backupGC(tc, policy, status, list, backups, now) ==
    IF policy = "none"
       \/ (policy = "reserved" /\ tc.gcFails = "duration")
       \/ tc.gcFails = "list"
    THEN [listed |-> {}, deleted |-> {}, status |-> status, reset |-> FALSE]
    ELSE LET doomed == IF policy = "reserved" THEN Expired(list, backups, now)
                       ELSE Surplus(list, backups)
         IN  IF DeleteFails(tc, doomed)
             THEN [listed |-> list,
                   deleted |-> DeletedBeforeFailure(tc, policy, doomed, backups),
                   status |-> status, reset |-> FALSE]
             ELSE IF AllDeleted(doomed, list)
             THEN [listed |-> list, deleted |-> doomed,
                   status |-> resetLastBackup(status, now), reset |-> TRUE]
             ELSE [listed |-> list, deleted |-> doomed, status |-> status,
                   reset |-> FALSE]

backupFrame ==
    <<clusterDomain, webhook, desired, desiredTemplate, updateRevision,
      currentRevision, members, leader, peerMembers, oldSet, pods, disturbed,
      deletedPods, tac, pass>>

\* bs.Status in the state.
StatusOf(b) == BackupStatus(b.lastBackup, b.lastBackupTime, b.allBackupCleanTime)

\* backupScheduleManager.Sync on a schedule taken from the queue: the body,
\* then the deferred GC on what the lister shows.
BackupSync ==
    /\ ~bs.sync.ran
    /\ Cardinality(DOMAIN bs.backups) <= MaxBackupObjects
    /\ \E tc \in BackupInputs :
        \E r \in {SyncBody(tc, StatusOf(bs), bs.listed, bs.backups, bs.now)} :
          \E made \in {IF r.created = NoBackup THEN bs.backups
                       ELSE [b \in DOMAIN bs.backups \cup {r.created} |->
                               IF b = r.created
                               THEN [created |-> bs.now, state |-> "pending"]
                               ELSE bs.backups[b]]} :
            \E list \in {IF tc.listerFresh THEN DOMAIN made ELSE bs.listed} :
              \E gc \in {backupGC(tc, bs.policy, r.status, list, made, bs.now)} :
                /\ bs' = [bs EXCEPT
                            !.lastBackup = gc.status.lastBackup,
                            !.lastBackupTime = gc.status.lastBackupTime,
                            !.allBackupCleanTime = gc.status.allBackupCleanTime,
                            !.backups = [b \in DOMAIN made \ gc.deleted |-> made[b]],
                            !.listed = list \ gc.deleted,
                            !.refreshedAt =
                                IF r.err = "RefreshAllBackupCleanTime"
                                THEN bs.now ELSE @,
                            !.sync = [ran |-> TRUE, tc |-> tc,
                                      before |-> StatusOf(bs),
                                      listedBefore |-> bs.listed,
                                      backupsBefore |-> bs.backups,
                                      refreshedBefore |-> bs.refreshedAt,
                                      missed |-> r.missed, tooMany |-> r.tooMany,
                                      scheduled |-> r.scheduled,
                                      created |-> r.created, err |-> r.err,
                                      gcListed |-> gc.listed,
                                      gcDeleted |-> gc.deleted,
                                      reset |-> gc.reset]]
                /\ UNCHANGED backupFrame

\* The schedule is queued again: on an error, or at the next resync.
BackupRequeue ==
    /\ bs.sync.ran
    /\ bs' = [bs EXCEPT !.sync = NoSync]
    /\ UNCHANGED backupFrame

\* Time passes.
Tick ==
    /\ bs.ticks < MaxTicks
    /\ bs' = [bs EXCEPT !.now = @ + 1, !.ticks = @ + 1, !.sync = NoSync]
    /\ UNCHANGED backupFrame

\* The controller is down, or the schedule paused, for a long time.
LongOutage ==
    /\ bs.outages < MaxOutages
    /\ bs' = [bs EXCEPT !.now = @ + Outage, !.outages = @ + 1, !.sync = NoSync]
    /\ UNCHANGED backupFrame

\* A backup makes progress: it is scheduled, completes or fails.
BackupProgress ==
    \E b \in DOMAIN bs.backups :
        \E st \in BackupStates :
            /\ \/ bs.backups[b].state = "pending"
                  /\ st \in {"running", "failedUnscheduled"}
               \/ bs.backups[b].state = "running" /\ st \in {"complete", "failed"}
            /\ bs' = [bs EXCEPT !.backups[b].state = st, !.sync = NoSync]
            /\ UNCHANGED backupFrame

\* The lister catches up with the API server.
ListerCatchesUp ==
    /\ bs.listed # DOMAIN bs.backups
    /\ bs' = [bs EXCEPT !.listed = DOMAIN bs.backups, !.sync = NoSync]
    /\ UNCHANGED backupFrame

InitBackup ==
    /\ webhook = FALSE
    /\ clusterDomain = FALSE
    /\ oldSet = NoSet
    /\ desired = [replicas |-> 0, deleteSlots |-> {}]
    /\ desiredTemplate = InitialTemplate
    /\ updateRevision = InitialTemplate
    /\ currentRevision = InitialTemplate
    /\ pods = <<>>
    /\ members = [i \in Ordinals |-> "absent"]
    /\ leader = NoName
    /\ peerMembers = <<>>
    /\ disturbed = 0
    /\ deletedPods = {}
    /\ pass = NoPass
    /\ tac = NoAutoScaler
    /\ \E policy \in {"none", "reserved", "max"} :
        bs = [exists |-> TRUE, policy |-> policy,
              lastBackup |-> NoBackup, lastBackupTime |-> Nil,
              allBackupCleanTime |-> Nil,
              backups |-> <<>>, listed |-> {},
              now |-> CreationTimestamp, ticks |-> 0, outages |-> 0,
              refreshedAt |-> Nil,
              sync |-> NoSync]

NextBackup ==
    \/ BackupSync
    \/ BackupRequeue
    \/ Tick
    \/ LongOutage
    \/ BackupProgress
    \/ ListerCatchesUp

SpecBackup == InitBackup /\ [][NextBackup]_vars

\* ------------------------------------------- getLastScheduledTime alone
\* In SpecSchedule the variable bs holds a status and a clock reading taken
\* from bounded sets, and the result of getLastScheduledTime on them.

\* Times of the status and of the clock range over 0 .. MaxScheduleTime; the
\* clock can also read a time more than 100 periods later.
MaxScheduleTime == 5

ScheduleTimes == 0 .. MaxScheduleTime
ClockReadings == ScheduleTimes \cup {MaxScheduleTime + Outage}

NoResult ==
    [time |-> Nil, err |-> "nil", status |-> BackupStatus(NoBackup, Nil, Nil),
     missed |-> 0, tooMany |-> FALSE]

\* getLastScheduledTime is called.
GetLastScheduledTime ==
    /\ ~bs.called
    /\ \E tc \in {NoBackupInput, [NoBackupInput EXCEPT !.fails = "parse"]} :
        bs' = [bs EXCEPT !.called = TRUE, !.tc = tc,
                         !.result = getLastScheduledTime(tc, bs.status, bs.now)]
    /\ UNCHANGED backupFrame

\* The clock is read at another time, before the next call.
ClockMoves ==
    /\ bs.called
    /\ \E now \in ClockReadings :
        bs' = [bs EXCEPT !.called = FALSE, !.tc = NoBackupInput,
                         !.result = NoResult, !.now = now]
    /\ UNCHANGED backupFrame

InitSchedule ==
    /\ webhook = FALSE
    /\ clusterDomain = FALSE
    /\ oldSet = NoSet
    /\ desired = [replicas |-> 0, deleteSlots |-> {}]
    /\ desiredTemplate = InitialTemplate
    /\ updateRevision = InitialTemplate
    /\ currentRevision = InitialTemplate
    /\ pods = <<>>
    /\ members = [i \in Ordinals |-> "absent"]
    /\ leader = NoName
    /\ peerMembers = <<>>
    /\ disturbed = 0
    /\ deletedPods = {}
    /\ pass = NoPass
    /\ tac = NoAutoScaler
    /\ \E lastBackupTime \in ScheduleTimes \cup {Nil} :
         \E allBackupCleanTime \in ScheduleTimes \cup {Nil} :
           \E now \in ClockReadings :
             bs = [exists |-> TRUE,
                   status |-> BackupStatus(
                                 IF lastBackupTime = Nil THEN NoBackup
                                 ELSE GetBackupCRDName(lastBackupTime),
                                 lastBackupTime, allBackupCleanTime),
                   now |-> now, called |-> FALSE, tc |-> NoBackupInput,
                   result |-> NoResult]

NextSchedule ==
    \/ GetLastScheduledTime
    \/ ClockMoves

SpecSchedule == InitSchedule /\ [][NextSchedule]_vars

\* ---------------------------------------------------------- auto-scaling
\* In SpecAuto the variable tac holds the TidbClusterAutoScaler: the
\* configured intervals, the status of the TiKV and of the TiDB group, the
\* clock in half seconds, and the record of the last auto-scaling request.

\* Interval settings range over 0 .. MaxInterval seconds, replica counts over
\* 1 .. MaxAutoReplicas, and the clock makes MaxAutoTicks steps.
MaxInterval == 2
MaxAutoReplicas == 2
MaxAutoTicks == 5

\* Clock steps in a second.
StepsPerSecond == 2

AutoMemberTypes == {"tikv", "tidb"}

\* tac.Status.TiKV[group] and tac.Status.TiDB[group]: whether the entry
\* exists, and its LastAutoScalingTimestamp.
NoGroupStatus == [existed |-> FALSE, lastAutoScalingTimestamp |-> Nil]

\* int32(time.Since(t).Seconds())
SecondsSince(t, now) == (now - t) \div StepsPerSecond

\* checkAutoScalingInterval refusing until more than the interval has passed.
checkAutoScalingInterval_Strict(t, intervalSeconds, memberType) ==
    IF ~t.status[memberType].existed THEN TRUE
    ELSE IF t.status[memberType].lastAutoScalingTimestamp = Nil THEN TRUE
    ELSE IF intervalSeconds >=
              SecondsSince(t.status[memberType].lastAutoScalingTimestamp, t.now)
    THEN FALSE
    ELSE TRUE

\* checkAutoScalingInterval(tac, intervalSeconds, memberType, group)
checkAutoScalingInterval(t, intervalSeconds, memberType) ==
    IF ~t.status[memberType].existed THEN TRUE
    ELSE IF t.status[memberType].lastAutoScalingTimestamp = Nil THEN TRUE
    ELSE IF intervalSeconds >
              SecondsSince(t.status[memberType].lastAutoScalingTimestamp, t.now)
    THEN FALSE
    ELSE TRUE

\* checkAutoScaling taking the scale-out interval for either direction.
checkAutoScaling_OutIntervalOnly(t, memberType, beforeReplicas, afterReplicas) ==
    IF beforeReplicas # afterReplicas
    THEN checkAutoScalingInterval(t, t.spec[memberType].scaleOutIntervalSeconds,
                                  memberType)
    ELSE TRUE

\* checkAutoScaling(tac, memberType, group, beforeReplicas, afterReplicas)
checkAutoScaling(t, memberType, beforeReplicas, afterReplicas) ==
    IF beforeReplicas > afterReplicas
    THEN checkAutoScalingInterval(t, t.spec[memberType].scaleInIntervalSeconds,
                                  memberType)
    ELSE IF beforeReplicas < afterReplicas
    THEN checkAutoScalingInterval(t, t.spec[memberType].scaleOutIntervalSeconds,
                                  memberType)
    ELSE TRUE

NoRequest ==
    [made |-> FALSE, memberType |-> "tikv", beforeReplicas |-> 1,
     afterReplicas |-> 1, status |-> NoGroupStatus, permitted |-> FALSE]

autoFrame ==
    <<clusterDomain, webhook, desired, desiredTemplate, updateRevision,
      currentRevision, members, leader, peerMembers, oldSet, pods, disturbed,
      deletedPods, bs, pass>>

\* The autoscaler asks for afterReplicas replicas of a group and changes the
\* group only if checkAutoScaling permits; a change of the count is recorded
\* with its time.
AutoScale ==
    \E memberType \in AutoMemberTypes :
      \E afterReplicas \in 1 .. MaxAutoReplicas :
        LET beforeReplicas == tac.replicas[memberType]
            permitted == checkAutoScaling(tac, memberType, beforeReplicas,
                                          afterReplicas)
            request == [made |-> TRUE, memberType |-> memberType,
                        beforeReplicas |-> beforeReplicas,
                        afterReplicas |-> afterReplicas,
                        status |-> tac.status[memberType],
                        permitted |-> permitted]
        IN  /\ tac' = IF permitted /\ afterReplicas # beforeReplicas
                      THEN [tac EXCEPT
                              !.replicas[memberType] = afterReplicas,
                              !.status[memberType] =
                                  [existed |-> TRUE,
                                   lastAutoScalingTimestamp |-> tac.now],
                              !.request = request]
                      ELSE [tac EXCEPT !.request = request]
            /\ UNCHANGED autoFrame

\* The status entry of a group appears, without a timestamp.
GroupStatusCreated ==
    \E memberType \in AutoMemberTypes :
        /\ ~tac.status[memberType].existed
        /\ tac' = [tac EXCEPT !.status[memberType].existed = TRUE,
                              !.request = NoRequest]
        /\ UNCHANGED autoFrame

\* Half a second passes.
AutoTick ==
    /\ tac.now < MaxAutoTicks
    /\ tac' = [tac EXCEPT !.now = @ + 1, !.request = NoRequest]
    /\ UNCHANGED autoFrame

InitAuto ==
    /\ webhook = FALSE
    /\ clusterDomain = FALSE
    /\ oldSet = NoSet
    /\ desired = [replicas |-> 0, deleteSlots |-> {}]
    /\ desiredTemplate = InitialTemplate
    /\ updateRevision = InitialTemplate
    /\ currentRevision = InitialTemplate
    /\ pods = <<>>
    /\ members = [i \in Ordinals |-> "absent"]
    /\ leader = NoName
    /\ peerMembers = <<>>
    /\ disturbed = 0
    /\ deletedPods = {}
    /\ bs = NoSchedule
    /\ pass = NoPass
    /\ \E a \in 0 .. MaxInterval :
         \E b \in 0 .. MaxInterval :
           tac = [exists |-> TRUE,
                  spec |-> [m \in AutoMemberTypes |->
                              IF m = "tikv"
                              THEN [scaleInIntervalSeconds |-> a,
                                    scaleOutIntervalSeconds |-> b]
                              ELSE [scaleInIntervalSeconds |-> b,
                                    scaleOutIntervalSeconds |-> a]],
                  status |-> [m \in AutoMemberTypes |-> NoGroupStatus],
                  replicas |-> [m \in AutoMemberTypes |-> 1],
                  now |-> 0,
                  request |-> NoRequest]

NextAuto ==
    \/ AutoScale
    \/ GroupStatusCreated
    \/ AutoTick

SpecAuto == InitAuto /\ [][NextAuto]_vars

\* ------------------------------------------------------------ properties
\* The pass record holds what the last pass was given and did; every step of
\* the environment clears it, so while pass.ran holds, the pods, members,
\* leader and revisions of the state are the ones the pass observed, and
\* pass.oldSet is the set it observed.
Cursor(set) == set.strategy.partition

WalkingPass == pass.ran /\ pass.path = "walk"

\* The pass reached a pod to upgrade: the ordinal is pass.target.
Targeting(k) == WalkingPass /\ pass.target = k

\* The pass wrote the cursor k for the pod it reached, and returned no error.
CursorSetTo(k) == Targeting(k) /\ pass.err = "nil" /\ Cursor(pass.newSet) = k

Mismatched(k) == k \in DOMAIN pods /\ pods[k] # NoLabel /\ pods[k] # updateRevision

HoldsLeadership(k) == leader \in {PdNameOf(clusterDomain, k), PdPodNameOf(k)}

\* A member the leadership of ordinal k can be handed to, as upgradePDPod
\* looks for one.
HasCandidate(k) ==
    \/ Cardinality(DOMAIN pods) > 1
    \/ \E n \in 1 .. Len(peerMembers) :
        peerMembers[n].health /\ peerMembers[n].name # PdNameOf(clusterDomain, k)

CursorUnmoved ==
    /\ Cursor(pass.newSet) = Cursor(pass.oldSet)
    /\ ~pass.applied
    /\ oldSet = pass.oldSet

Above(k) == { j \in GetPodOrdinals(pass.oldSet) : j > k }

UpdatedAndHealthy(j) ==
    /\ j \in DOMAIN pods
    /\ pods[j] = updateRevision
    /\ members[j] = "healthy"

\* An ordinal at the target revision whose member is missing or unhealthy,
\* with only target-revision pods above it.
StalledAt(j) ==
    /\ j \in GetPodOrdinals(pass.oldSet)
    /\ j \in DOMAIN pods
    /\ pods[j] = updateRevision
    /\ members[j] # "healthy"
    /\ \A h \in Above(j) : h \in DOMAIN pods /\ pods[h] = updateRevision

\* C3: when a pass sets the cursor to k, with or without the webhook, every
\* live ordinal above k has a pod of the target revision and a healthy member
\* on record; a walking pass that meets a target-revision ordinal whose member
\* is unhealthy or missing stops with a retryable error and leaves the cursor.
C3_HigherOrdinalsReady ==
    /\ \A k \in Ordinals :
        CursorSetTo(k) => \A j \in Above(k) : UpdatedAndHealthy(j)
    /\ (WalkingPass /\ \E j \in Ordinals : StalledAt(j))
            => /\ pass.err = "NotReady"
               /\ pass.err \in RequeueErrors
               /\ pass.target = -1
               /\ CursorUnmoved

C3_Witness ==
    /\ \E k \in Ordinals : CursorSetTo(k) /\ Above(k) # {} /\ webhook
    /\ pass.applied

C3_WitnessStalled ==
    /\ WalkingPass
    /\ \E j \in Ordinals :
        StalledAt(j) /\ \E k \in Ordinals : k < j /\ Mismatched(k)
    /\ pass.err = "NotReady"

C5_OneTransferThenRequeue ==
    \A k \in Ordinals :
        (~webhook /\ Targeting(k) /\ HoldsLeadership(k) /\ HasCandidate(k))
            => /\ Len(pass.transfers) = 1
               /\ pass.transfers[1] # NoName
               /\ pass.transfers[1].kind = "peer" <=> Cardinality(DOMAIN pods) = 1
               /\ pass.tc.transferOk =>
                    pass.err = "TransferringLeader" /\ pass.err \in RequeueErrors
               /\ ~pass.tc.transferOk =>
                    pass.err = "TransferFailed" /\ pass.err \in PlainErrors
               /\ Cursor(pass.newSet) = Cursor(pass.oldSet)
               /\ Cursor(oldSet) = Cursor(pass.oldSet)

C5_Witness ==
    \E k \in Ordinals :
        /\ ~webhook /\ Targeting(k) /\ HoldsLeadership(k) /\ HasCandidate(k)
        /\ pass.transfers # <<>>
        /\ ~pass.tc.transferOk

C5_WitnessPeer ==
    \E k \in Ordinals :
        /\ ~webhook /\ Targeting(k) /\ HoldsLeadership(k)
        /\ Len(pass.transfers) = 1 /\ pass.transfers[1].kind = "peer"
        /\ pass.tc.transferOk

\* C6: while the TiCDC phase is Upgrade or PD is scaling, a pass leaves the PD
\* phase as it found it, leaves the cursor of the new set as built, inspects
\* no pod and issues no leader transfer.
C6_BlockedPassIsNoOp ==
    (pass.ran /\ (pass.tc.ticdcPhase = "Upgrade" \/ pass.tc.pdPhase = "Scale"))
        => /\ pass.phase = pass.tc.pdPhase
           /\ pass.newSet.strategy = NewSetBuilt.strategy
           /\ pass.target = -1
           /\ pass.inspected = <<>>
           /\ pass.transfers = <<>> /\ ~pass.accepted

C6_Witness ==
    /\ pass.ran /\ pass.tc.ticdcPhase = "Upgrade" /\ pass.tc.pdPhase = "Upgrade"
    /\ \E k \in Ordinals : Mismatched(k) /\ HoldsLeadership(k)
    /\ pass.applied

C6_WitnessScaling ==
    /\ pass.ran /\ pass.tc.ticdcPhase = "Normal" /\ pass.tc.pdPhase = "Scale"
    /\ pass.phase = "Scale"
    /\ desiredTemplate # pass.oldSet.template

BlockedPass == pass.ran /\ pass.path = "blocked"

\* C7 as stated: the template a blocked pass submits equals the one applied
\* before.
C7_BlockedTemplateAsApplied ==
    (BlockedPass /\ pass.tc.lastAppliedOK)
        => pass.newSet.template = pass.oldSet.template

\* C7: a blocked pass replaces the pod spec of the new set's template by the
\* last applied pod spec and leaves the template's metadata as built, so the
\* template submitted has the applied pod spec under the built metadata; when
\* the last applied configuration cannot be read the pass returns that error
\* and the new set stays as built.
C7_BlockedPodSpecAsApplied ==
    /\ (BlockedPass /\ pass.tc.lastAppliedOK)
        => /\ pass.err = "nil"
           /\ pass.newSet.template.spec = pass.oldSet.template.spec
           /\ pass.newSet.template.meta = desiredTemplate.meta
           /\ oldSet.template = pass.newSet.template
    /\ (BlockedPass /\ ~pass.tc.lastAppliedOK)
        => /\ pass.err = "GetLastAppliedConfig"
           /\ pass.newSet = NewSetBuilt
           /\ oldSet = pass.oldSet

C7_Witness ==
    /\ BlockedPass /\ pass.tc.lastAppliedOK
    /\ desiredTemplate.spec # pass.oldSet.template.spec
    /\ pass.newSet.template = pass.oldSet.template

C7_WitnessUnreadable ==
    /\ BlockedPass /\ ~pass.tc.lastAppliedOK
    /\ desiredTemplate.spec # pass.oldSet.template.spec

C8_WitnessRepeat ==
    /\ WalkingPass /\ pass.applied
    /\ pass.target = Cursor(pass.oldSet)

MismatchedLive == { j \in GetPodOrdinals(pass.oldSet) : j \in DOMAIN pods /\ Mismatched(j) }

RECURSIVE Descending(_)
Descending(ords) ==
    IF ords = {} THEN <<>> ELSE <<Max(ords)>> \o Descending(ords \ {Max(ords)})

\* C9: a pass that sets the cursor for a pod sets it to the highest
\* revision-mismatched live ordinal, and has examined the live ordinals from
\* the top down to that one and none below it: one ordinal per pass.
C9_OneOrdinalPerPass ==
    \A k \in Ordinals :
        CursorSetTo(k)
            => /\ MismatchedLive # {} /\ k = Max(MismatchedLive)
               /\ pass.inspected = Descending({ j \in GetPodOrdinals(pass.oldSet) : j >= k })
               /\ Cursor(oldSet) = k
               /\ \A j \in GetPodOrdinals(pass.oldSet) :
                    (j < k /\ Mismatched(j)) => j < Cursor(oldSet)

C9_Witness ==
    \E k \in Ordinals :
        /\ CursorSetTo(k) /\ ~webhook /\ ~HoldsLeadership(k)
        /\ \E j \in MismatchedLive : j < k
        /\ Above(k) # {}

\* C10: with the pod webhook enabled, a pass that reaches a pod to upgrade
\* sets the cursor to it, the highest revision-mismatched live ordinal, and
\* ends without error and without a leader transfer, whoever holds the
\* leadership.
C10_WebhookSetsCursor ==
    \A k \in Ordinals :
        (webhook /\ Targeting(k))
            => /\ k = Max(MismatchedLive)
               /\ pass.err = "nil"
               /\ Cursor(pass.newSet) = k
               /\ pass.transfers = <<>> /\ ~pass.accepted
               /\ pass.applied /\ Cursor(oldSet) = k
               /\ pass.inspected # <<>> /\ pass.inspected[Len(pass.inspected)] = k

C10_Witness ==
    \E k \in Ordinals :
        /\ webhook /\ Targeting(k) /\ HoldsLeadership(k) /\ HasCandidate(k)
        /\ Cursor(oldSet) = k

\* C2 (under SpecRolling: RollingReplicas live ordinals, all
\* revision-mismatched at the start): the cursor a walking pass writes is the
\* stored one or the next ordinal below it, so the cursors written run through
\* RollingReplicas - 1, ..., 1, 0 in this order with repeats; a pass moves the
\* cursor down only when every ordinal from the stored cursor upward is at the
\* target revision and healthy; until the group has converged no pod below
\* the stored cursor has been replaced, and no other pass touches the cursor.
C2_UpgradeOrdering ==
    /\ Cursor(oldSet) \in 0 .. RollingReplicas
    /\ currentRevision # updateRevision
        => /\ \A j \in DOMAIN pods : j < Cursor(oldSet) => pods[j] = InitialTemplate
           /\ pass.ran => pass.path = "walk"
    /\ WalkingPass
        => /\ Cursor(pass.newSet) \in {Cursor(pass.oldSet), Cursor(pass.oldSet) - 1}
           /\ Cursor(oldSet) \in {Cursor(pass.oldSet), Cursor(pass.oldSet) - 1}
           /\ Cursor(pass.newSet) < Cursor(pass.oldSet)
                => /\ pass.target = Cursor(pass.newSet)
                   /\ \A j \in DOMAIN pods :
                        j >= Cursor(pass.oldSet) => UpdatedAndHealthy(j)
    /\ (pass.ran /\ ~WalkingPass)
        => /\ pass.path = "revisionEqual"
           /\ \A j \in DOMAIN pods : pods[j] = updateRevision

C2_Witness ==
    /\ pass.ran /\ pass.applied
    /\ Cursor(pass.oldSet) = 1 /\ Cursor(oldSet) = 0 /\ pass.target = 0
    /\ \A j \in 1 .. (RollingReplicas - 1) : UpdatedAndHealthy(j)
    /\ Mismatched(0)

\* The pass was not blocked and was given a new set whose pod spec is the one
\* last applied.
UnblockedPass ==
    /\ pass.ran /\ pass.tc.synced /\ pass.tc.lastAppliedOK
    /\ pass.tc.ticdcPhase = "Normal" /\ pass.tc.pdPhase # "Scale"
    /\ desiredTemplate.spec = pass.oldSet.template.spec

\* The pass found the update revision of the group equal to its current one.
IdlePass == UnblockedPass /\ updateRevision = currentRevision

\* What the next pass does when nothing has changed in between.
RepeatedPass ==
    gracefulUpgrade([pass.tc EXCEPT !.pdPhase = ObservedPhase], NewSetBuilt)

\* C11 as stated: with the update revision equal to the current one a pass
\* leaves the new set as built, inspects no pod, issues no transfer and
\* changes nothing else, the PD phase included.
C11_IdlePassChangesNothing ==
    IdlePass
        => /\ pass.err = "nil"
           /\ pass.newSet = NewSetBuilt
           /\ pass.inspected = <<>> /\ pass.transfers = <<>>
           /\ pass.phase = pass.tc.pdPhase

\* C11: with the update revision equal to the current one a pass sets the PD
\* phase to Upgrade and does nothing else: it returns no error, leaves the new
\* set and its cursor as built, inspects no pod and issues no transfer;
\* repeating the pass gives the same new set and changes nothing on the set
\* applied.
C11_IdlePassOnlySetsPhase ==
    IdlePass
        => /\ pass.err = "nil"
           /\ pass.phase = "Upgrade"
           /\ pass.newSet = NewSetBuilt
           /\ pass.target = -1
           /\ pass.inspected = <<>> /\ pass.transfers = <<>> /\ ~pass.accepted
           /\ RepeatedPass.err = "nil"
           /\ RepeatedPass.newSet = pass.newSet
           /\ RepeatedPass.phase = pass.phase
           /\ UpdateStatefulSet(RepeatedPass.newSet, oldSet) = oldSet

C11_Witness ==
    /\ IdlePass /\ pass.tc.pdPhase = "Normal" /\ pass.phase = "Upgrade"
    /\ pass.applied
    /\ Cursor(pass.oldSet) = Cursor(oldSet)

\* The observed set carries a strategy that was changed by hand.
ManualPass ==
    /\ UnblockedPass /\ updateRevision # currentRevision
    /\ pass.oldSet.strategy.type = "OnDelete" \/ ~pass.oldSet.strategy.rolling

\* C12: when the update strategy of the observed set is OnDelete or has no
\* RollingUpdate, the pass copies that strategy into the new set as it is,
\* sets no cursor, inspects no pod, issues no transfer and returns no error.
C12_ManualStrategyKept ==
    ManualPass
        => /\ pass.err = "nil"
           /\ pass.newSet.strategy = pass.oldSet.strategy
           /\ pass.newSet = [NewSetBuilt EXCEPT !.strategy = pass.oldSet.strategy]
           /\ oldSet.strategy = pass.oldSet.strategy
           /\ pass.target = -1
           /\ pass.inspected = <<>> /\ pass.transfers = <<>> /\ ~pass.accepted

C12_Witness ==
    /\ ManualPass /\ ~pass.oldSet.strategy.rolling
    /\ \E k \in Ordinals : Mismatched(k) /\ HoldsLeadership(k)
    /\ pass.applied

C12_WitnessOnDelete ==
    /\ ManualPass /\ pass.oldSet.strategy.type = "OnDelete"
    /\ \E k \in Ordinals : Mismatched(k)

\* Every live ordinal has a pod of the target revision and a healthy member,
\* and the status synchronisation reports the phase Normal.
Converged ==
    /\ DOMAIN pods = GetPodOrdinals(oldSet)
    /\ \A i \in DOMAIN pods : pods[i] = updateRevision /\ members[i] = "healthy"
    /\ pods \in [GetPodOrdinals(desired) -> {desiredTemplate}]
    /\ ObservedPhase = "Normal"

VacatingLeader(k) == ~webhook /\ Targeting(k) /\ HoldsLeadership(k)

\* The ordinal at the other end of the live ordinals of the new set.
OppositeEnd(k) ==
    LET live == GetPodOrdinals(pass.newSet)
    IN  IF k = Max(live) THEN Min(live) ELSE Max(live)

\* C14 (under SpecSelect): with more than one replica the transfer goes to
\* the highest live ordinal of the new set, or to the lowest when the ordinal
\* to upgrade is the highest; the target is named by its member name when it
\* is in the member map and by its pod name otherwise.
C14_TargetOppositeEnd ==
    \A k \in Ordinals :
        (VacatingLeader(k) /\ Cardinality(DOMAIN pods) > 1)
            => /\ Len(pass.transfers) = 1
               /\ pass.transfers[1].ord = OppositeEnd(k)
               /\ pass.transfers[1] =
                    IF members[OppositeEnd(k)] # "absent"
                    THEN PdNameOf(clusterDomain, OppositeEnd(k))
                    ELSE PdPodNameOf(OppositeEnd(k))

C14_Witness ==
    \E k \in Ordinals :
        /\ VacatingLeader(k) /\ Cardinality(DOMAIN pods) > 1
        /\ clusterDomain /\ members[OppositeEnd(k)] = "absent"
        /\ pass.transfers = <<PdPodNameOf(OppositeEnd(k))>>
        /\ OppositeEnd(k) < k

C14_WitnessHighest ==
    \E k \in Ordinals :
        /\ VacatingLeader(k) /\ Cardinality(DOMAIN pods) > 1
        /\ clusterDomain /\ OppositeEnd(k) > k
        /\ pass.transfers = <<PdNameOf(clusterDomain, OppositeEnd(k))>>
        /\ pass.oldSet.deleteSlots # {}

\* The entries of the peer list that are healthy and not named as the member
\* of ordinal k.
HealthyPeersOtherThan(k) ==
    { n \in 1 .. Len(peerMembers) :
        peerMembers[n].health /\ peerMembers[n].name # PdNameOf(clusterDomain, k) }

C15_WitnessSkips ==
    \E k \in Ordinals :
        /\ VacatingLeader(k) /\ Cardinality(DOMAIN pods) = 1
        /\ leader = PdNameOf(clusterDomain, k)
        /\ HealthyPeersOtherThan(k) = {2}
        /\ pass.transfers = <<peerMembers[2].name>>

\* The set applied is the desired topology and the pods running are its live
\* ordinals.
Scaled ==
    /\ oldSet.replicas = desired.replicas
    /\ oldSet.deleteSlots = desired.deleteSlots
    /\ DOMAIN pods = GetPodOrdinals(oldSet)

\* C16 (under SpecScale): for every replicas >= 0 and every set of delete
\* slots of the model, the live ordinals are exactly `replicas' distinct
\* non-negative integers, none of them a delete slot, and none when replicas
\* is 0; a group scaled to the topology runs exactly that many pods.
C16_LiveOrdinalsCount ==
    /\ \A t \in {desired, [replicas |-> oldSet.replicas,
                          deleteSlots |-> oldSet.deleteSlots]} :
        /\ GetPodOrdinals(t) \subseteq Nat
        /\ Cardinality(GetPodOrdinals(t)) = t.replicas
        /\ GetPodOrdinals(t) \cap t.deleteSlots = {}
        /\ t.replicas = 0 => GetPodOrdinals(t) = {}
    /\ Scaled => /\ Cardinality(DOMAIN pods) = desired.replicas
                 /\ DOMAIN pods \cap desired.deleteSlots = {}

C16_Witness ==
    /\ Scaled /\ pass.ran
    /\ desired.replicas = 3 /\ desired.deleteSlots = {0, 3}
    /\ DOMAIN pods = {1, 2, 4}

C16_WitnessEmpty ==
    /\ Scaled /\ desired.replicas = 0 /\ desired.deleteSlots = {0, 2}
    /\ pods = <<>> /\ members[1] = "absent" /\ ~pass.ran

\* The pods running from the start: their members are on record, the member
\* of a pod created since is not, and that of a pod deleted is dropped.
RunningFromTheStart ==
    { i \in DOMAIN pods : members[i] = "healthy" /\ i \notin deletedPods }

ScaleOutWithHole ==
    /\ desired.replicas = 4 /\ desired.deleteSlots = {1}
    /\ oldSet.replicas = 4 /\ oldSet.deleteSlots = {1}
    /\ RunningFromTheStart = {0, 2, 4}
    /\ deletedPods = {}

\* C18 as stated (under SpecScale): from live ordinals {0, 2, 4}, 4 replicas
\* with delete slot 1 yield the pods {0, 2, 4, 5}.
C18_NewOrdinalIsFive ==
    ScaleOutWithHole /\ Scaled => DOMAIN pods = {0, 2, 4, 5}

\* C18 amended (under SpecScale): from live ordinals {0, 2, 4}, 4 replicas
\* with delete slot 1 yield the pods {0, 2, 3, 4}: ordinal 3 is added, 1 stays
\* a hole, no pod 5 is created and 0, 2 and 4 are the pods they were.
C18_NewOrdinalIsThree ==
    /\ desired.replicas = 4 /\ desired.deleteSlots = {1}
            => GetPodOrdinals(desired) = {0, 2, 3, 4}
    /\ ScaleOutWithHole =>
        /\ DOMAIN pods \in {{0, 2, 4}, {0, 2, 3, 4}}
        /\ Scaled => DOMAIN pods = {0, 2, 3, 4}

C18_Witness ==
    /\ ScaleOutWithHole /\ Scaled
    /\ DOMAIN pods = {0, 2, 3, 4} /\ members[3] = "absent"

\* The group existed when the last pump pass started.
PumpGroupExisted == pass.ran /\ pass.oldSet # NoSet

\* TiCDC, TiFlash, PD or TiKV was upgrading in the last pump pass.
PumpUpstreamUpgrading ==
    \/ pass.tc.ticdcPhase = "Upgrade" \/ pass.tc.tiflashPhase = "Upgrade"
    \/ pass.tc.pdPhase = "Upgrade" \/ pass.tc.tikvPhase = "Upgrade"

PumpCalls == pass.calls

\* The last pump pass reached the step that creates or updates the group: it
\* was not paused and the status, the config map and the new set were built.
PumpReachedGroup ==
    /\ pass.ran /\ pass.tc.hasPump /\ ~pass.tc.paused
    /\ pass.tc.fails \notin {"service", "get", "status", "configmap", "build"}

\* C20 (under SpecPump): a pass that finds no group never invokes the Scaler
\* or the update, and creates the group exactly once when it gets as far as
\* the group (not paused, the new set built and annotated); a pass that finds
\* the group issues no create, and invokes the update only after the Scaler:
\* Scaler then update when it gets that far and nothing upstream upgrades.
C20_CreateOrScaleThenUpdate ==
    /\ (pass.ran /\ pass.oldSet = NoSet) =>
        /\ PumpCalls \in {<<>>, <<"create">>}
        /\ (PumpReachedGroup /\ pass.tc.fails # "annotation")
              => PumpCalls = <<"create">>
        /\ (PumpCalls = <<"create">> /\ pass.err = "nil")
              => oldSet = pass.newSet /\ oldSet.replicas = desired.replicas
        /\ (PumpCalls = <<>> \/ pass.err # "nil") => oldSet = NoSet
    /\ PumpGroupExisted =>
        /\ PumpCalls \in {<<>>, <<"scale">>, <<"scale", "update">>}
        /\ PumpReachedGroup => PumpCalls # <<>>
        /\ (PumpReachedGroup /\ pass.tc.fails # "scale" /\ ~PumpUpstreamUpgrading)
              => PumpCalls = <<"scale", "update">>
        /\ oldSet # NoSet

C20_Witness ==
    /\ pass.ran /\ pass.oldSet = NoSet /\ PumpCalls = <<"create">>
    /\ pass.tc.pdPhase = "Upgrade" /\ pass.err = "nil"
    /\ oldSet.replicas = 2 /\ desired.replicas = 2

C20_WitnessExisting ==
    /\ PumpGroupExisted /\ PumpCalls = <<"scale", "update">>
    /\ pass.scaled = "GrowTo" /\ pass.err = "nil"
    /\ pass.oldSet.replicas = 0 /\ oldSet.replicas = 1 /\ desired.replicas = 2

\* The sub-steps the last pump pass entered.
PumpStepsEntered == { pass.steps[k] : k \in DOMAIN pass.steps }

\* C21 (under SpecPump): a pass of the pump member manager on a paused
\* cluster observes the status and nothing more: it creates or updates no
\* service, syncs no config map, builds, creates and updates no StatefulSet,
\* invokes neither the Scaler nor the update, and leaves the group as it was.
C21_PausedPassObservesOnly ==
    (pass.ran /\ pass.tc.hasPump /\ pass.tc.paused) =>
        /\ pass.svcCall = "none"
        /\ PumpStepsEntered \subseteq {"service", "status"}
        /\ pass.calls = <<>> /\ pass.scaled = "none"
        /\ oldSet = pass.oldSet
        /\ pass.err \in {"nil", "GetStatefulSet", "SyncStatus"}

C21_Witness ==
    /\ pass.ran /\ pass.tc.hasPump /\ pass.tc.paused
    /\ pass.oldSet # NoSet /\ pass.oldSet.replicas # desired.replicas
    /\ pass.oldSet.template # desiredTemplate
    /\ pass.steps = <<"service", "status">> /\ pass.err = "nil"

C21_WitnessNoGroup ==
    /\ pass.ran /\ pass.tc.hasPump /\ pass.tc.paused
    /\ pass.oldSet = NoSet /\ oldSet = NoSet /\ pass.err = "nil"

\* The sub-step whose error the last pump pass returned ("none" if it
\* returned none, or the error of the StatefulSet lister).
PumpFailedStep ==
    IF pass.err = "SyncHeadlessService" THEN "service"
    ELSE IF pass.err = "SyncStatus" THEN "status"
    ELSE IF pass.err = "SyncConfigMap" THEN "configmap"
    ELSE IF pass.err = "GetNewSet" THEN "build"
    ELSE IF pass.err = "CreateStatefulSet" THEN "create"
    ELSE IF pass.err = "Scale" THEN "scale"
    ELSE IF pass.err = "UpdateStatefulSet" THEN "update"
    ELSE "none"

\* The failing call of the last pump pass was made: its sub-step was entered
\* and is not one that returns at once (the service of a paused cluster, the
\* status of a group not created yet).
PumpFailureMet ==
    /\ pass.ran
    /\ pass.tc.fails \in PumpStepsEntered
    /\ ~(pass.tc.fails = "service" /\ pass.tc.paused)
    /\ ~(pass.tc.fails = "status" /\ pass.oldSet = NoSet)

C22_WitnessService ==
    /\ PumpFailureMet /\ pass.tc.fails = "service" /\ pass.tc.svc = "missing"
    /\ pass.svcCall = "CreateService" /\ pass.class = "ignorable"
    /\ pass.steps = <<"service">>

\* The pass was blocked by an upgrade of TiCDC or a scaling of PD.
BlockedInputs ==
    /\ pass.ran /\ pass.tc.synced
    /\ pass.tc.ticdcPhase = "Upgrade" \/ pass.tc.pdPhase = "Scale"

\* C23 as stated: a pass leaves the new set as built but for its replicas,
\* its delete slots and its partition, and the observed set as it was.
C23_OnlyThreeFieldsWritten ==
    pass.ran =>
        /\ pass.newSet.template = NewSetBuilt.template
        /\ pass.newSet.strategy.type = NewSetBuilt.strategy.type
        /\ pass.newSet.strategy.rolling = NewSetBuilt.strategy.rolling
        /\ pass.err # "nil" => oldSet = pass.oldSet

\* C23 amended: an Upgrader pass never changes the replicas, the delete slots
\* or the template metadata of the new set. It changes the partition; the pod
\* spec of the template only when blocked, to the last applied one; and the
\* update strategy only when the observed one was modified by hand, to the
\* observed one. The observed set changes by the update that follows a pass
\* without error only.
C23_UpgraderWrites ==
    pass.ran =>
        /\ pass.newSet.replicas = NewSetBuilt.replicas
        /\ pass.newSet.deleteSlots = NewSetBuilt.deleteSlots
        /\ pass.newSet.template.meta = NewSetBuilt.template.meta
        /\ pass.newSet.template.spec # NewSetBuilt.template.spec
             => /\ BlockedInputs /\ pass.tc.lastAppliedOK
                /\ pass.newSet.template.spec = pass.oldSet.template.spec
        /\ (\/ pass.newSet.strategy.type # NewSetBuilt.strategy.type
            \/ pass.newSet.strategy.rolling # NewSetBuilt.strategy.rolling)
             => /\ ManualPass
                /\ pass.newSet.strategy = pass.oldSet.strategy
        /\ pass.err # "nil" => oldSet = pass.oldSet
        /\ pass.err = "nil" => oldSet = UpdateStatefulSet(pass.newSet, pass.oldSet)

\* A blocked pass that wrote the applied pod spec over a different one.
C23_Witness ==
    /\ BlockedInputs /\ pass.err = "nil"
    /\ pass.newSet.template.spec # NewSetBuilt.template.spec
    /\ pass.newSet.template.meta = NewSetBuilt.template.meta
    /\ oldSet.template.spec = pass.oldSet.template.spec

\* A blocked pass that left metadata that differ from the applied ones.
C23_WitnessMeta ==
    /\ BlockedInputs /\ pass.err = "nil"
    /\ pass.newSet.template.meta # pass.oldSet.template.meta

C23_WitnessManual ==
    /\ ManualPass /\ pass.newSet.strategy.type = "OnDelete"
    /\ NewSetBuilt.strategy.type = "RollingUpdate"

C23_WitnessPartition ==
    /\ pass.ran /\ pass.err = "nil" /\ pass.newSet.template = NewSetBuilt.template
    /\ pass.newSet.strategy.partition # NewSetBuilt.strategy.partition

\* ---------------------------------------------------------------- C25
\* The last Sync of the schedule got as far as looking for a scheduled time:
\* the schedule was not paused, the last backup could be read and was not
\* shown as unfinished, and the schedule was parsed.
LastBackupUnfinished ==
    /\ bs.sync.before.lastBackup \in bs.sync.listedBefore
    /\ bs.sync.backupsBefore[bs.sync.before.lastBackup].state
           \in {"pending", "failedUnscheduled", "running"}

ReachedSchedule ==
    /\ bs.exists
    /\ bs.sync.ran
    /\ ~bs.sync.tc.pause
    /\ bs.sync.tc.fails \notin {"getBackup", "parse"}
    /\ ~LastBackupUnfinished

\* The reference time of the last Sync and the schedule occurrences after it
\* and up to now.
ReferenceTime ==
    IF bs.sync.before.lastBackupTime # Nil THEN bs.sync.before.lastBackupTime
    ELSE IF bs.sync.before.allBackupCleanTime # Nil
    THEN bs.sync.before.allBackupCleanTime
    ELSE 0

MissedOccurrences ==
    { t \in (ReferenceTime + 1) .. bs.now : t % Period = 0 }

CapExceeded == ReachedSchedule /\ Cardinality(MissedOccurrences) > 100

\* C25 as stated: a pass that finds more than 100 schedule occurrences
\* between the reference time and now creates no backup, returns no error
\* and, when LastBackupTime is set, leaves LastBackup and LastBackupTime
\* unchanged.
C25_CapDropsSilently ==
    CapExceeded =>
        /\ bs.sync.created = NoBackup
        /\ bs.sync.err = "nil"
        /\ bs.sync.before.lastBackupTime # Nil =>
              /\ bs.lastBackup = bs.sync.before.lastBackup
              /\ bs.lastBackupTime = bs.sync.before.lastBackupTime

\* C25 amended: such a pass creates no backup. It returns no error, except
\* that with LastBackupTime unset and AllBackupCleanTime set it returns a
\* retryable error, having set AllBackupCleanTime to now. When
\* LastBackupTime is set, LastBackup and LastBackupTime are unchanged at
\* return unless the deferred GC of the pass has reset them (both cleared,
\* AllBackupCleanTime set to now).
C25_CapDropsOccurrences ==
    CapExceeded =>
        /\ bs.sync.created = NoBackup
        /\ DOMAIN bs.backups \subseteq DOMAIN bs.sync.backupsBefore
        /\ IF bs.sync.before.lastBackupTime = Nil
              /\ bs.sync.before.allBackupCleanTime # Nil
           THEN /\ BackupErrorClass(bs.sync.err) = "retryable"
                /\ bs.allBackupCleanTime = bs.now
           ELSE bs.sync.err = "nil"
        /\ bs.sync.before.lastBackupTime # Nil =>
              \/ /\ bs.lastBackup = bs.sync.before.lastBackup
                 /\ bs.lastBackupTime = bs.sync.before.lastBackupTime
              \/ /\ bs.lastBackup = NoBackup
                 /\ bs.lastBackupTime = Nil
                 /\ bs.allBackupCleanTime = bs.now

\* A pass after a long outage, with LastBackupTime set, that dropped the
\* missed occurrences and left the last-backup information as it was.
C25_Witness ==
    /\ CapExceeded
    /\ bs.sync.before.lastBackupTime # Nil
    /\ bs.lastBackupTime = bs.sync.before.lastBackupTime
    /\ bs.sync.err = "nil"

\* The pass that returns the retryable error.
C25_WitnessRequeue ==
    /\ CapExceeded
    /\ bs.sync.before.lastBackupTime = Nil
    /\ bs.sync.before.allBackupCleanTime # Nil
    /\ bs.sync.err = "RefreshAllBackupCleanTime"

\* The pass whose GC resets the last-backup information.
C25_WitnessReset ==
    /\ CapExceeded
    /\ bs.sync.before.lastBackupTime # Nil
    /\ bs.lastBackupTime = Nil
    /\ bs.sync.gcDeleted # {}
\* ---------------------------------------------------------------- C26
\* The newest schedule occurrence after the reference time and up to now.
NewestMissed ==
    CHOOSE t \in MissedOccurrences : \A u \in MissedOccurrences : u <= t

C26_WitnessNone ==
    /\ ReachedSchedule
    /\ MissedOccurrences = {}
    /\ bs.sync.scheduled = Nil
    /\ bs.now > 0
\* ---------------------------------------------------------------- C27
\* The interval that applies to the last auto-scaling request: the scale-in
\* interval for a decrease, the scale-out interval for an increase.
RequestInterval ==
    IF tac.request.afterReplicas < tac.request.beforeReplicas
    THEN tac.spec[tac.request.memberType].scaleInIntervalSeconds
    ELSE tac.spec[tac.request.memberType].scaleOutIntervalSeconds

RequestMade == tac.exists /\ tac.request.made

RequestChangesCount ==
    RequestMade /\ tac.request.afterReplicas # tac.request.beforeReplicas

\* The group had a recorded last-auto-scaling timestamp when asked.
RecordedBefore ==
    /\ tac.request.status.existed
    /\ tac.request.status.lastAutoScalingTimestamp # Nil

\* C27: an auto-scaling that changes the replica count of a TiKV or TiDB
\* group is permitted exactly if the group has no recorded last-auto-scaling
\* timestamp or at least the configured interval of its direction has
\* elapsed since it; a request that leaves the count unchanged is always
\* permitted; and an auto-scaling carried out after an earlier one of the
\* group is recorded at least that interval after it.
C27_AutoScalingInterval ==
    RequestMade =>
        /\ ~RequestChangesCount => tac.request.permitted
        /\ RequestChangesCount =>
              (tac.request.permitted <=>
                 \/ ~RecordedBefore
                 \/ tac.now - tac.request.status.lastAutoScalingTimestamp
                        >= RequestInterval * StepsPerSecond)
        /\ (/\ RequestChangesCount
            /\ RecordedBefore
            /\ tac.replicas[tac.request.memberType] = tac.request.afterReplicas) =>
              tac.status[tac.request.memberType].lastAutoScalingTimestamp
                 - tac.request.status.lastAutoScalingTimestamp
                 >= RequestInterval * StepsPerSecond

\* A second auto-scaling of a group, carried out once its interval of a
\* second or more had elapsed.
C27_Witness ==
    /\ RequestChangesCount
    /\ RecordedBefore
    /\ RequestInterval >= 1
    /\ tac.request.permitted
    /\ tac.replicas[tac.request.memberType] = tac.request.afterReplicas

\* A second auto-scaling refused because it came too early.
C27_WitnessRefused ==
    /\ RequestChangesCount
    /\ RecordedBefore
    /\ ~tac.request.permitted
    /\ tac.now > tac.request.status.lastAutoScalingTimestamp
\* ---------------------------------------------------------------- C28
\* When the last Sync began, the backup named by Status.LastBackup existed
\* and was neither complete nor both scheduled and failed.
LastBackupExistsUnfinished ==
    /\ bs.exists
    /\ bs.sync.ran
    /\ bs.sync.before.lastBackup \in DOMAIN bs.sync.backupsBefore
    /\ bs.sync.backupsBefore[bs.sync.before.lastBackup].state
           \in {"pending", "failedUnscheduled", "running"}

\* When the last Sync began, the newest backup of the schedule was still in
\* progress.
PreviousBackupInProgress ==
    \E b \in DOMAIN bs.sync.backupsBefore :
        /\ \A c \in DOMAIN bs.sync.backupsBefore :
              bs.sync.backupsBefore[c].created <= bs.sync.backupsBefore[b].created
        /\ bs.sync.backupsBefore[b].state \in {"pending", "running"}

\* C28: a Sync pass (of a schedule that is not paused and whose last backup
\* can be read) that finds the backup named by Status.LastBackup existing
\* and unfinished returns a retryable error and creates no backup, and no
\* Sync pass creates a backup while the previous backup of the schedule is
\* still in progress.
C28_NoBackupWhilePreviousRuns ==
    /\ (/\ LastBackupExistsUnfinished
        /\ ~bs.sync.tc.pause
        /\ bs.sync.tc.fails # "getBackup") =>
          /\ BackupErrorClass(bs.sync.err) = "retryable"
          /\ bs.sync.created = NoBackup
    /\ (bs.exists /\ bs.sync.ran /\ bs.sync.created # NoBackup) =>
          ~PreviousBackupInProgress

\* The pass that waits: the lister shows the unfinished last backup.
C28_Witness ==
    /\ LastBackupExistsUnfinished
    /\ bs.sync.before.lastBackup \in bs.sync.listedBefore
    /\ bs.sync.err = "StillRunning"
    /\ bs.sync.created = NoBackup
    /\ Cardinality(MissedOccurrences) >= 1

\* ---------------------------------------------------------------- C29
\* C29: the GC of a pass resets the last-backup information exactly if it
\* has deleted every backup of the schedule: it has deleted some backup and
\* none remains.
C29_ResetExactlyWhenAllDeleted ==
    (bs.exists /\ bs.sync.ran) =>
        /\ bs.sync.reset <=> (bs.sync.gcDeleted # {} /\ DOMAIN bs.backups = {})
        /\ bs.sync.reset =>
              /\ bs.lastBackup = NoBackup
              /\ bs.lastBackupTime = Nil
              /\ bs.allBackupCleanTime = bs.now

\* The pass whose GC deleted every backup of the schedule and reset.
C29_Witness ==
    /\ bs.exists
    /\ bs.sync.ran
    /\ bs.sync.reset
    /\ bs.sync.gcDeleted # {}
    /\ DOMAIN bs.backups = {}

\* The pass whose GC deleted nothing and reset.
C29_WitnessNothingDeleted ==
    /\ bs.exists
    /\ bs.sync.ran
    /\ bs.sync.reset
    /\ bs.sync.gcDeleted = {}

\* ---------------------------------------------------------------- C30
\* C30: when a Sync pass has created a backup, at its return Status.LastBackup
\* names that backup, Status.LastBackupTime is its scheduled time and
\* AllBackupCleanTime is unset.
C30_CreatedBackupIsLastBackup ==
    (bs.exists /\ bs.sync.ran /\ bs.sync.created # NoBackup) =>
        /\ bs.lastBackup = bs.sync.created
        /\ bs.lastBackupTime = bs.sync.scheduled
        /\ bs.allBackupCleanTime = Nil

\* The pass that created a backup and recorded it.
C30_Witness ==
    /\ bs.exists
    /\ bs.sync.ran
    /\ bs.sync.created # NoBackup
    /\ bs.sync.created \in DOMAIN bs.backups
    /\ bs.lastBackup = bs.sync.created
    /\ bs.lastBackupTime = bs.sync.scheduled
    /\ bs.policy # "none"
\* ---------------------------------------------------------------- C31
\* The last Sync found more than 100 missed occurrences with LastBackupTime
\* unset and AllBackupCleanTime set.
LongPauseAfterClean ==
    /\ CapExceeded
    /\ bs.sync.before.lastBackupTime = Nil
    /\ bs.sync.before.allBackupCleanTime # Nil

\* The last Sync came after a pass that refreshed the reference time, and
\* no more than 100 schedule periods after it.
AfterRefresh ==
    /\ ReachedSchedule
    /\ bs.sync.refreshedBefore # Nil
    /\ bs.now - bs.sync.refreshedBefore <= 100 * Period

\* C31: a pass that finds more than 100 missed occurrences with
\* LastBackupTime unset and AllBackupCleanTime set leaves AllBackupCleanTime
\* at now and returns a retryable error; a later pass counts its missed
\* occurrences from that time or a later one, so at most 100 of them, and
\* when one is due it creates the backup of the newest due occurrence.
C31_RecoversFromLongPause ==
    /\ LongPauseAfterClean =>
          /\ bs.allBackupCleanTime = bs.now
          /\ bs.sync.err = "RefreshAllBackupCleanTime"
          /\ BackupErrorClass(bs.sync.err) = "retryable"
          /\ bs.refreshedAt = bs.now
    /\ AfterRefresh =>
          /\ ReferenceTime >= bs.sync.refreshedBefore
          /\ Cardinality(MissedOccurrences) <= 100
          /\ (/\ MissedOccurrences # {}
              /\ bs.sync.tc.fails = "none"
              /\ GetBackupCRDName(NewestMissed) \notin DOMAIN bs.sync.backupsBefore) =>
                /\ bs.sync.err = "nil"
                /\ bs.sync.created = GetBackupCRDName(NewestMissed)

\* A pass after the refresh that created the backup of the occurrence that
\* had become due.
C31_Witness ==
    /\ AfterRefresh
    /\ bs.sync.before.lastBackupTime = Nil
    /\ bs.sync.before.allBackupCleanTime = bs.sync.refreshedBefore
    /\ MissedOccurrences # {}
    /\ bs.sync.created = GetBackupCRDName(NewestMissed)
    /\ bs.sync.created \in DOMAIN bs.backups
\* ---------------------------------------------------------------- C32
\* The backups of the schedule at the time of the GC of the last Sync, and
\* those of them the lister showed to the GC.
BackupsAtGC ==
    DOMAIN bs.sync.backupsBefore \cup (IF bs.sync.created = NoBackup THEN {}
                                       ELSE {bs.sync.created})

ListedAtGC ==
    IF bs.sync.tc.listerFresh THEN BackupsAtGC ELSE bs.sync.listedBefore

CreatedAt(b) ==
    IF b \in DOMAIN bs.sync.backupsBefore THEN bs.sync.backupsBefore[b].created
    ELSE bs.now

\* The n most recently created backups of the set S (all of S if it has at
\* most n).
MostRecent(S, n) ==
    { b \in S : Cardinality({ c \in S : CreatedAt(c) > CreatedAt(b) }) < n }

\* The last Sync ran the GC by MaxBackups and could list the backups.
GCByMaxBackups ==
    /\ bs.exists
    /\ bs.sync.ran
    /\ bs.policy = "max"
    /\ bs.sync.tc.gcFails # "list"

\* C32 as stated: after a GC by MaxBackups in which every delete succeeds,
\* exactly the MaxBackups most recently created backups of the schedule
\* remain and only older ones were deleted; if a delete fails, no further
\* backup is deleted in that pass.
C32_NewestOfScheduleRemain ==
    GCByMaxBackups =>
        /\ bs.sync.tc.gcFails = "none" =>
              /\ DOMAIN bs.backups = MostRecent(BackupsAtGC, MaxBackups)
              /\ bs.sync.gcDeleted = BackupsAtGC \ MostRecent(BackupsAtGC, MaxBackups)
        /\ bs.sync.tc.gcFails = "delete" => bs.sync.gcDeleted = {}
        /\ bs.sync.tc.gcFails = "delete2" =>
              \/ Cardinality(bs.sync.gcDeleted) <= 1
              \/ bs.sync.gcDeleted = BackupsAtGC \ MostRecent(BackupsAtGC, MaxBackups)

\* C32 amended: of the backups the lister shows, exactly the MaxBackups
\* most recently created remain and only listed backups older than those
\* were deleted; a backup the lister does not show is left alone. If a
\* delete fails, no further backup is deleted in that pass.
C32_NewestOfListedRemain ==
    GCByMaxBackups =>
        /\ bs.sync.gcDeleted \subseteq ListedAtGC \ MostRecent(ListedAtGC, MaxBackups)
        /\ DOMAIN bs.backups = BackupsAtGC \ bs.sync.gcDeleted
        /\ \A b \in bs.sync.gcDeleted :
              \A c \in MostRecent(ListedAtGC, MaxBackups) :
                 CreatedAt(b) < CreatedAt(c)
        /\ bs.sync.tc.gcFails = "none" =>
              bs.sync.gcDeleted = ListedAtGC \ MostRecent(ListedAtGC, MaxBackups)
        /\ bs.sync.tc.gcFails = "delete" => bs.sync.gcDeleted = {}
        /\ bs.sync.tc.gcFails = "delete2" =>
              \/ Cardinality(bs.sync.gcDeleted) = 1
              \/ Cardinality(ListedAtGC \ MostRecent(ListedAtGC, MaxBackups)) <= 1

\* A GC that deleted the older of the listed backups and kept the newest.
C32_Witness ==
    /\ GCByMaxBackups
    /\ bs.sync.tc.gcFails = "none"
    /\ bs.sync.gcDeleted # {}
    /\ DOMAIN bs.backups = MostRecent(BackupsAtGC, MaxBackups)

\* A GC whose second delete failed, with two backups to delete.
C32_WitnessSecondDeleteFails ==
    /\ GCByMaxBackups
    /\ bs.sync.tc.gcFails = "delete2"
    /\ Cardinality(ListedAtGC \ MostRecent(ListedAtGC, MaxBackups)) >= 2
    /\ Cardinality(bs.sync.gcDeleted) = 1
\* ---------------------------------------------------------------- C33
\* The reference of a call of getLastScheduledTime: LastBackupTime if set,
\* else AllBackupCleanTime if set, else the creation time of the schedule.
CallReference ==
    IF bs.status.lastBackupTime # Nil THEN bs.status.lastBackupTime
    ELSE IF bs.status.allBackupCleanTime # Nil THEN bs.status.allBackupCleanTime
    ELSE 0

\* The cron occurrences t with reference < t <= now.
CallOccurrences == { t \in (CallReference + 1) .. bs.now : t % Period = 0 }

Called == bs.exists /\ bs.called /\ bs.tc.fails = "none"

C33_WitnessReferenceAfterNow ==
    /\ Called
    /\ CallReference > bs.now
    /\ bs.result.time = Nil
\* ---------------------------------------------------------------- C34
\* The last Sync had a time to schedule and failed to delete the job of the
\* previous backup.
DeleteJobFailed ==
    /\ ReachedSchedule
    /\ Cardinality(MissedOccurrences) \in 1 .. 100
    /\ bs.sync.tc.fails = "deleteJob"

\* C34: a Sync pass in which deleting the previous backup's job fails
\* creates no backup, leaves LastBackup and LastBackupTime unchanged and
\* returns an error.
C34_DeleteJobFailureReported ==
    DeleteJobFailed =>
        /\ bs.sync.created = NoBackup
        /\ DOMAIN bs.backups \subseteq DOMAIN bs.sync.backupsBefore
        /\ \/ /\ bs.lastBackup = bs.sync.before.lastBackup
              /\ bs.lastBackupTime = bs.sync.before.lastBackupTime
           \/ bs.sync.reset
        /\ bs.sync.err # "nil"

\* The pass that failed to delete the job: no backup created, the last
\* backup of the status as before.
C34_Witness ==
    /\ DeleteJobFailed
    /\ bs.sync.before.lastBackup # NoBackup
    /\ bs.sync.created = NoBackup
    /\ bs.lastBackup = bs.sync.before.lastBackup
    /\ bs.lastBackupTime = bs.sync.before.lastBackupTime
\* ---------------------------------------------------------------- C35
\* The errors a pass can end with once it walks the ordinals.
WalkErrors == {"GetPod", "NoLabel", "NotReady", "TransferringLeader", "TransferFailed"}

FailedWalk == WalkingPass /\ pass.err # "nil"

\* C35: a pass that has started walking the ordinals and ends with an error
\* (a pod cannot be fetched or lacks the revision label, an upgraded member
\* is unhealthy, a leader transfer was issued or failed) leaves on the new
\* set the partition of the observed set, and the observed set stays as it
\* was.
C35_FailedPassKeepsCursor ==
    FailedWalk =>
        /\ pass.err \in WalkErrors
        /\ Cursor(pass.newSet) = Cursor(pass.oldSet)
        /\ ~pass.applied
        /\ Cursor(oldSet) = Cursor(pass.oldSet)

\* A pass that asked for a leader transfer for an ordinal below the cursor
\* and left the cursor where it was.
C35_Witness ==
    /\ FailedWalk
    /\ pass.err = "TransferringLeader"
    /\ pass.target \in GetPodOrdinals(pass.oldSet)
    /\ pass.target < Cursor(pass.oldSet)
    /\ Cursor(pass.newSet) = Cursor(pass.oldSet)

C35_WitnessTransferFailed == FailedWalk /\ pass.err = "TransferFailed"
C35_WitnessGetPod == FailedWalk /\ pass.err = "GetPod"
C35_WitnessNoLabel == FailedWalk /\ pass.err = "NoLabel"
C35_WitnessNotReady == FailedWalk /\ pass.err = "NotReady"
\* ---------------------------------------------------------------- C36
\* The last pass asked PD to hand the leadership over.
TransferRequested == pass.ran /\ pass.transfers # <<>>

\* C36: the target of every leader-transfer request of the Upgrader is a
\* member other than the one being vacated: the target name equals neither
\* the member name nor the pod name of the ordinal to upgrade.
C36_TargetIsAnotherMember ==
    TransferRequested =>
        /\ pass.transfers[1] # PdNameOf(clusterDomain, pass.target)
        /\ pass.transfers[1] # PdPodNameOf(pass.target)

\* A transfer request to another member of the group.
C36_Witness ==
    /\ TransferRequested
    /\ Cardinality(GetPodOrdinals(pass.newSet)) > 1
    /\ \E j \in GetPodOrdinals(pass.newSet) \ {pass.target} :
          pass.transfers[1] \in {PdNameOf(clusterDomain, j), PdPodNameOf(j)}
\* ---------------------------------------------------------------- C37
\* The ordinals whose pod the last pass looked up.
Inspected == { pass.inspected[n] : n \in 1 .. Len(pass.inspected) }

\* The last pass wrote the cursor of the new set: it differs from the one
\* the set was built with.
CursorWritten == pass.ran /\ Cursor(pass.newSet) # Cursor(NewSetBuilt)

\* C37: the Upgrader sets the cursor only to the observed partition or to a
\* live ordinal of the observed set; it never looks up the pod of a deleted
\* slot and never sets the cursor to a deleted slot.
C37_CursorOnLiveOrdinals ==
    pass.ran =>
        /\ CursorWritten =>
              \/ Cursor(pass.newSet) = Cursor(pass.oldSet)
              \/ Cursor(pass.newSet) \in GetPodOrdinals(pass.oldSet)
        /\ Inspected \subseteq GetPodOrdinals(pass.oldSet)
        /\ Inspected \cap pass.oldSet.deleteSlots = {}
        /\ pass.target # -1 => pass.target \in GetPodOrdinals(pass.oldSet)
        /\ CursorWritten => Cursor(pass.newSet) \notin pass.oldSet.deleteSlots

\* A pass over a group with a deleted slot below its highest ordinal that
\* walked past the slot and set the cursor to the live ordinal below it.
C37_Witness ==
    /\ CursorWritten
    /\ pass.oldSet.deleteSlots # {}
    /\ \E d \in pass.oldSet.deleteSlots :
          /\ \E j \in Inspected : j > d
          /\ pass.target < d
    /\ Cursor(pass.newSet) = pass.target
    /\ pass.err = "nil"
\* ---------------------------------------------------------------- C38
\* The last pass was given a PD status that is not synced.
UnsyncedPass == pass.ran /\ ~pass.tc.synced

\* C38: with the PD status not synced a pass returns an error and changes
\* nothing: the PD phase is as it was, the new set is as built (template,
\* strategy and cursor), no pod is inspected, no transfer is issued, and the
\* observed set is not updated.
C38_UnsyncedPassFails ==
    UnsyncedPass =>
        /\ pass.err = "NotSynced"
        /\ pass.err \in PlainErrors
        /\ pass.phase = pass.tc.pdPhase
        /\ pass.newSet = NewSetBuilt
        /\ pass.target = -1
        /\ pass.inspected = <<>>
        /\ pass.transfers = <<>>
        /\ ~pass.accepted
        /\ ~pass.applied
        /\ oldSet = pass.oldSet

\* An unsynced pass over a group in the middle of a rollout, with the
\* leadership on a pod that is still to be replaced.
C38_Witness ==
    /\ UnsyncedPass
    /\ updateRevision # currentRevision
    /\ desiredTemplate = pass.oldSet.template
    /\ \E k \in GetPodOrdinals(pass.oldSet) : Mismatched(k) /\ HoldsLeadership(k)
    /\ pass.err = "NotSynced"
\* ---------------------------------------------------------------- C39
\* The status of an existing pump group was observed and the pods could be
\* listed.
StatusObserved ==
    /\ pass.ran
    /\ oldSet # NoSet
    /\ ~pass.tc.listFails

\* Some listed pump pod carries a revision label other than the update
\* revision of the group.
SomePodOnOtherRevision ==
    \E n \in 1 .. Len(pods) : pods[n] # NoLabel /\ pods[n] # updateRevision

\* The group itself is upgrading.
GroupUpgrading == currentRevision # updateRevision \/ pass.tc.generationPending

\* C39: after status observation of an existing pump group the pump phase
\* is Upgrade if and only if the group itself is upgrading or some pump pod
\* carries a revision label other than the update revision of the group;
\* otherwise it is Normal.
C39_PumpPhaseFollowsRevisions ==
    StatusObserved =>
        /\ pass.phase \in {"Upgrade", "Normal"}
        /\ pass.phase = "Upgrade" <=> (GroupUpgrading \/ SomePodOnOtherRevision)

\* An observation that found a pod on another revision and set Upgrade.
C39_Witness ==
    /\ StatusObserved
    /\ ~GroupUpgrading
    /\ SomePodOnOtherRevision
    /\ pass.before = "Normal"
    /\ pass.phase = "Upgrade"

\* An observation with a pod on another revision listed after a pod without
\* the label.
C39_WitnessUnlabelledFirst ==
    /\ StatusObserved
    /\ ~GroupUpgrading
    /\ SomePodOnOtherRevision
    /\ pass.phase = "Normal"
\* ---------------------------------------------------------------- C40
\* The last pump pass issued an update of the group.
PumpUpdateIssued == \E k \in DOMAIN pass.calls : pass.calls[k] = "update"

\* The last pump pass got as far as the test of the four phases: it found
\* the group, was not paused, and none of its calls before the test failed.
PumpReachedWait ==
    /\ PumpGroupExisted /\ PumpReachedGroup
    /\ pass.tc.fails # "scale"

\* C40 (under SpecPump): in a pass of the pump member manager in which
\* TiCDC, TiFlash, PD or TiKV is in the Upgrade phase no update of the pump
\* group is issued, an existing group is left as the pass observed it
\* (template, replicas and strategy), and the pass, having got to the test
\* of the phases, returns without error; an update is issued only in a pass
\* in which none of the four is upgrading.
C40_NoUpdateWhileUpstreamUpgrades ==
    pass.ran =>
        /\ PumpUpstreamUpgrading =>
              /\ ~PumpUpdateIssued
              /\ PumpGroupExisted => oldSet = pass.oldSet
              /\ PumpReachedWait => pass.err = "nil"
        /\ PumpUpdateIssued => ~PumpUpstreamUpgrading

\* A pass that would have rolled out an edited template, with TiCDC alone
\* upgrading and the update itself due to fail had it been issued.
C40_Witness ==
    /\ PumpReachedWait
    /\ pass.tc.ticdcPhase = "Upgrade" /\ pass.tc.tiflashPhase = "Normal"
    /\ pass.tc.pdPhase = "Normal" /\ pass.tc.tikvPhase = "Normal"
    /\ desiredTemplate # pass.oldSet.template
    /\ pass.tc.fails = "update"
    /\ ~PumpUpdateIssued /\ pass.err = "nil"
    /\ oldSet.template = pass.oldSet.template

\* A pass with nothing upgrading upstream that issued the update.
C40_WitnessUpdate ==
    /\ PumpReachedWait /\ ~PumpUpstreamUpgrading
    /\ desiredTemplate # pass.oldSet.template
    /\ PumpUpdateIssued /\ pass.err = "nil"
    /\ oldSet.template = desiredTemplate
====
